---- MODULE Spec2Model ----
(***************************************************************************)
(* The resource CRUD subsystem of problem_5: ResourceService (validation   *)
(* and error translation) over ResourceModel (one parameterized SQL        *)
(* statement per store access) over the resources table of the PostgreSQL  *)
(* store.  A request is a service call of one client; every store          *)
(* statement the call awaits is one atomic step of the store.              *)
(***************************************************************************)
EXTENDS Integers, Sequences, FiniteSets, TLC

VARIABLES
    resources,  \* the rows of table resources
    nextId,     \* next value of the SERIAL sequence behind resources.id
    now,        \* the store clock, CURRENT_TIMESTAMP
    pc,         \* per client: "idle" or the store statement its call awaits
    call,       \* per client: the call in flight (operation and arguments)
    res,        \* per client: outcome of its last call
    lastCreated,\* history: what the latest successful create returned, while
                \* no UPDATE or DELETE statement has hit that row since
    deleted,    \* history: the ids some delete has removed
    apiKey,     \* process.env.API_KEY of the server
    req,        \* per client: the HTTP request it sent last, if any
    cache       \* sum_to_n_f.cache: the results sum_to_n_f has stored

vars == <<resources, nextId, now, pc, call, res, lastCreated, deleted, apiKey, req, cache>>

(***************************************************************************)
(* Bounds of the model.                                                    *)
(***************************************************************************)
MaxId == 2      \* creates are issued while the sequence is at most MaxId
MaxClock == 1   \* the store clock runs 0..MaxClock

(***************************************************************************)
(* JavaScript strings.  A string is a sequence of runs [ch, n] (n copies   *)
(* of character ch), so that 'a'.repeat(256) stays small.                  *)
(***************************************************************************)
Repeat(c, k) == IF k = 0 THEN <<>> ELSE <<[ch |-> c, n |-> k]>>

Str(chars) == [i \in DOMAIN chars |-> [ch |-> chars[i], n |-> 1]]

\* mutant: counts the runs, not the characters
lengthInRuns(s) == Len(s)

RECURSIVE length(_)
length(s) == IF s = <<>> THEN 0 ELSE Head(s).n + length(Tail(s))

trim(s) ==
    LET keep == {i \in DOMAIN s : s[i].ch # " "}
        lo == CHOOSE i \in keep : \A j \in keep : i <= j
        hi == CHOOSE i \in keep : \A j \in keep : j <= i
    IN  IF keep = {} THEN <<>> ELSE SubSeq(s, lo, hi)

\* the characters of a string, one by one
RECURSIVE Expand(_)
Expand(s) ==
    IF s = <<>> THEN <<>>
    ELSE [i \in 1..Head(s).n |-> Head(s).ch] \o Expand(Tail(s))

UpperCase == <<"A", "B", "C", "D", "X", "Y">>
LowerCase == <<"a", "b", "c", "d", "x", "y">>

\* case folding of one character, as ILIKE compares
lower(ch) ==
    IF \E i \in DOMAIN UpperCase : UpperCase[i] = ch
    THEN LowerCase[CHOOSE i \in DOMAIN UpperCase : UpperCase[i] = ch]
    ELSE ch

\* s LIKE p on character sequences, case folded: % matches any run of
\* characters, _ any one character
RECURSIVE LikeMatch(_, _)
LikeMatch(s, p) ==
    IF p = <<>> THEN s = <<>>
    ELSE IF Head(p) = "%"
    THEN \E k \in 0..Len(s) : LikeMatch(SubSeq(s, k + 1, Len(s)), Tail(p))
    ELSE IF s = <<>> THEN FALSE
    ELSE IF Head(p) = "_" THEN LikeMatch(Tail(s), Tail(p))
    ELSE lower(Head(p)) = lower(Head(s)) /\ LikeMatch(Tail(s), Tail(p))

\* column ILIKE pattern
ILike(s, p) == LikeMatch(Expand(s), Expand(p))

\* value !== undefined, for a field of a request body
Has(data, f) == f \in DOMAIN data

\* !value, for the name or description of a request body: undefined or ''
Falsy(data, f) == ~Has(data, f) \/ data[f] = <<>>

\* !data.status: undefined or ''.  A status is written as a TLA+ string.
FalsyStatus(data) == ~Has(data, "status") \/ data.status = ""

(***************************************************************************)
(* utils/errors.ts                                                         *)
(***************************************************************************)
AppError(kind, message, statusCode) ==
    [name |-> kind, message |-> message, statusCode |-> statusCode]

NotFoundError(message) == AppError("NotFoundError", message, 404)

ValidationError(message) == AppError("ValidationError", message, 400)

UnauthorizedError(message) == AppError("UnauthorizedError", message, 401)

NoError == [name |-> "none"]

MaxNameLength == 255
MaxDescriptionLength == 1000

StatusValues == {"active", "inactive"}

(***************************************************************************)
(* ResourceService.validateCreateData / validateUpdateData: the error the  *)
(* function throws, or NoError.                                            *)
(***************************************************************************)
\* mutant: the status is checked before name and description
validateCreateDataStatusFirst(data) ==
    IF ~FalsyStatus(data) /\ data.status \notin StatusValues
    THEN ValidationError(<<"Status must be either \"active\" or \"inactive\"">>)
    ELSE IF Falsy(data, "name") \/ length(trim(data.name)) = 0
    THEN ValidationError(<<"Name is required">>)
    ELSE IF length(data.name) > MaxNameLength
    THEN ValidationError(<<"Name must be less than 255 characters">>)
    ELSE IF Falsy(data, "description") \/ length(trim(data.description)) = 0
    THEN ValidationError(<<"Description is required">>)
    ELSE IF length(data.description) > MaxDescriptionLength
    THEN ValidationError(<<"Description must be less than 1000 characters">>)
    ELSE NoError

validateCreateData(data) ==
    IF Falsy(data, "name") \/ length(trim(data.name)) = 0
    THEN ValidationError(<<"Name is required">>)
    ELSE IF length(data.name) > MaxNameLength
    THEN ValidationError(<<"Name must be less than 255 characters">>)
    ELSE IF Falsy(data, "description") \/ length(trim(data.description)) = 0
    THEN ValidationError(<<"Description is required">>)
    ELSE IF length(data.description) > MaxDescriptionLength
    THEN ValidationError(<<"Description must be less than 1000 characters">>)
    ELSE IF ~FalsyStatus(data) /\ data.status \notin StatusValues
    THEN ValidationError(<<"Status must be either \"active\" or \"inactive\"">>)
    ELSE NoError

validateUpdateData(data) ==
    IF Has(data, "name") /\ length(trim(data.name)) = 0
    THEN ValidationError(<<"Name cannot be empty">>)
    ELSE IF Has(data, "name") /\ length(data.name) > MaxNameLength
    THEN ValidationError(<<"Name must be less than 255 characters">>)
    ELSE IF Has(data, "description") /\ length(trim(data.description)) = 0
    THEN ValidationError(<<"Description cannot be empty">>)
    ELSE IF Has(data, "description") /\ length(data.description) > MaxDescriptionLength
    THEN ValidationError(<<"Description must be less than 1000 characters">>)
    ELSE IF Has(data, "status") /\ data.status \notin StatusValues
    THEN ValidationError(<<"Status must be either \"active\" or \"inactive\"">>)
    ELSE NoError

(***************************************************************************)
(* The store: table resources (config/database.ts, initializeDatabase) and *)
(* the statements ResourceModel sends to it.                               *)
(***************************************************************************)
\* Date.prototype.toISOString: the Date of a row, re-encoded as a string
toISOString(d) == <<"ISO", d>>

mapRowToResource(row) ==
    [id |-> row.id,
     name |-> row.name,
     description |-> row.description,
     status |-> row.status,
     createdAt |-> toISOString(row.createdAt),
     updatedAt |-> toISOString(row.updatedAt)]

\* mutant: the sequence does not advance
NextValStuck(seq) == seq

\* nextval of the sequence behind id SERIAL
NextVal(seq) == seq + 1

\* mutant: the wrong default
createStatusDefaultInactive(data) == IF FalsyStatus(data) THEN "inactive" ELSE data.status

\* const status = data.status || 'active'
createStatus(data) == IF FalsyStatus(data) THEN "active" ELSE data.status

\* mutant: "createdAt" is stamped after "updatedAt"
InsertRowCreatedLater(data, id, t) ==
    [id |-> id,
     name |-> data.name,
     description |-> data.description,
     status |-> createStatus(data),
     createdAt |-> t + 1,
     updatedAt |-> t]

\* INSERT INTO resources (name, description, status) VALUES ($1, $2, $3):
\* id from the sequence, both timestamps DEFAULT CURRENT_TIMESTAMP
InsertRow(data, id, t) ==
    [id |-> id,
     name |-> data.name,
     description |-> data.description,
     status |-> createStatus(data),
     createdAt |-> t,
     updatedAt |-> t]

\* the column constraints of the table: VARCHAR(255), CHECK(status IN ...)
RowConstraintsOk(row) ==
    /\ length(row.name) <= MaxNameLength
    /\ row.status \in StatusValues

\* mutant: the WHERE clause is missing
SelectByIdNoWhere(rows, id) == rows

\* SELECT * FROM resources WHERE id = $1
SelectById(rows, id) == {r \in rows : r.id = id}

\* mutant: a status that is not supplied is written as the default
UpdateSetDefaultsStatus(row, data, t) ==
    [row EXCEPT
        !.name = IF Has(data, "name") THEN data.name ELSE @,
        !.description = IF Has(data, "description") THEN data.description ELSE @,
        !.status = createStatus(data),
        !.updatedAt = t]

\* mutant: "updatedAt" is left out of the SET list
UpdateSetKeepsUpdatedAt(row, data, t) ==
    [row EXCEPT
        !.name = IF Has(data, "name") THEN data.name ELSE @,
        !.description = IF Has(data, "description") THEN data.description ELSE @,
        !.status = IF Has(data, "status") THEN data.status ELSE @]

\* mutant: every column is in the SET list, a name or description that is
\* not supplied is written as the empty string
UpdateSetWritesAllColumns(row, data, t) ==
    [row EXCEPT
        !.name = IF Has(data, "name") THEN data.name ELSE Str(<<>>),
        !.description = IF Has(data, "description") THEN data.description ELSE Str(<<>>),
        !.status = IF Has(data, "status") THEN data.status ELSE @,
        !.updatedAt = t]

\* UPDATE resources SET <supplied columns>, "updatedAt" = CURRENT_TIMESTAMP
UpdateSet(row, data, t) ==
    [row EXCEPT
        !.name = IF Has(data, "name") THEN data.name ELSE @,
        !.description = IF Has(data, "description") THEN data.description ELSE @,
        !.status = IF Has(data, "status") THEN data.status ELSE @,
        !.updatedAt = t]

\* mutant: a soft delete, the row stays
DeleteWhereKeepsRow(rows, id) == rows

\* DELETE FROM resources WHERE id = $1
DeleteWhere(rows, id) == rows \ SelectById(rows, id)

\* the error a failed statement raises (pg DatabaseError, not an AppError)
DatabaseError == [name |-> "DatabaseError", message |-> <<"constraint violation">>]

(***************************************************************************)
(* Outcomes of a call as its caller sees them.                             *)
(***************************************************************************)
NoCall == [op |-> "none"]

NoOutcome == [op |-> "none", kind |-> "none", queries |-> 0]

Pending(op, q) == [op |-> op, kind |-> "pending", queries |-> q]

Returned(op, v, q) == [op |-> op, kind |-> "returned", value |-> v, queries |-> q]

Threw(op, e, q) == [op |-> op, kind |-> "threw", error |-> e, queries |-> q]

NoResource == [id |-> 0]

\* mutant: the default message of NotFoundError, without the id
notFoundMessageDefault(id) == <<"Resource not found">>

\* `Resource with id ${id} not found`
notFoundMessage(id) == <<"Resource with id ", id, " not found">>

(***************************************************************************)
(* Inputs of the calls.                                                    *)
(***************************************************************************)
nameAb == Str(<<"A", "b">>)
nameCd == Str(<<"c", "d">>)
nameEf == Str(<<"e", "f">>)
nameBlank == Str(<<" ">>)
nameTooLong == Repeat("a", MaxNameLength + 1)
descX == Str(<<"x">>)
descY == Str(<<"y", " ", "B">>)
descBlank == Repeat(" ", 2)
descTooLong == Repeat("d", MaxDescriptionLength + 1)

ValidCreateInputs ==
    { [name |-> nameAb, description |-> descX],
      [name |-> nameAb, description |-> descX, status |-> "active"],
      [name |-> nameCd, description |-> descY, status |-> "inactive"] }

InvalidCreateInputs ==
    { [name |-> nameBlank, description |-> descX, status |-> "active"],
      [name |-> nameAb, description |-> descTooLong],
      [name |-> nameAb, description |-> descX, status |-> "deleted"] }

CreateInputs == ValidCreateInputs \cup InvalidCreateInputs

ValidUpdateInputs ==
    { <<>>,
      [name |-> nameCd],
      [description |-> descY, status |-> "inactive"] }

InvalidUpdateInputs ==
    { [name |-> nameTooLong, status |-> "inactive"],
      [description |-> descBlank],
      [name |-> nameCd, status |-> "deleted"] }

FindAllInputs ==
    { <<>>,
      [status |-> "inactive"],
      [search |-> Str(<<"B">>), limit |-> 1],
      [page |-> 2, limit |-> 1],
      [page |-> 0],
      [limit |-> 101] }

\* ids a caller may ask for: every id the sequence can hand out
Ids == 1..MaxId

\* the update calls: every valid body on every id, the invalid ones on the
\* first id (which may or may not have a row)
UpdateCalls == (Ids \X ValidUpdateInputs) \cup ({1} \X InvalidUpdateInputs)

Clients == {"c1"}

(***************************************************************************)
(* State after construction: initializeDatabase has created the empty      *)
(* table and its sequence; no call is in flight.                           *)
(***************************************************************************)
\* process.env.API_KEY is not set
NoApiKey == [set |-> FALSE]

\* no request sent: the client calls the service directly
NoRequest == [route |-> "none"]

\* sum_to_n_f.cache is undefined: nothing stored yet
NoCache == <<>>

InitWith(clients, keys) ==
    /\ apiKey \in keys
    /\ req = [c \in clients |-> NoRequest]
    /\ resources = {}
    /\ nextId = 1
    /\ now = 0
    /\ pc = [c \in clients |-> "idle"]
    /\ call = [c \in clients |-> NoCall]
    /\ res = [c \in clients |-> NoOutcome]
    /\ lastCreated = NoResource
    /\ deleted = {}
    /\ cache = NoCache

InitFor(clients) == InitWith(clients, {NoApiKey})

Init == InitFor(Clients)

\* the call of client c ends with outcome o
Finish(c, o) ==
    /\ pc' = [pc EXCEPT ![c] = "idle"]
    /\ res' = [res EXCEPT ![c] = o]

\* the call of client c awaits a store statement
Await(c, op, stmt, q) ==
    /\ pc' = [pc EXCEPT ![c] = stmt]
    /\ res' = [res EXCEPT ![c] = Pending(op, q)]

(***************************************************************************)
(* ResourceService.create -> ResourceModel.create                          *)
(***************************************************************************)
\* mutant: the row is written before the data is validated
ServiceCreateWritesFirst(c, data) ==
    /\ pc[c] = "idle"
    /\ nextId <= MaxId
    /\ call' = [call EXCEPT ![c] = [op |-> "create", data |-> data]]
    /\ IF validateCreateData(data) # NoError
       THEN /\ Finish(c, Threw("create", validateCreateData(data), 0))
            /\ resources' = resources \cup {InsertRow(data, nextId, now)}
            /\ nextId' = NextVal(nextId)
       ELSE /\ Await(c, "create", "INSERT", 0)
            /\ UNCHANGED <<resources, nextId>>
    /\ UNCHANGED <<now, lastCreated, deleted>>

ServiceCreate(c, data) ==
    /\ pc[c] = "idle"
    /\ nextId <= MaxId
    /\ call' = [call EXCEPT ![c] = [op |-> "create", data |-> data]]
    /\ IF validateCreateData(data) # NoError
       THEN Finish(c, Threw("create", validateCreateData(data), 0))
       ELSE Await(c, "create", "INSERT", 0)
    /\ UNCHANGED <<resources, nextId, now, lastCreated, deleted>>

\* mutant: the status of the data is stored as it comes and the table has no
\* CHECK constraint
ModelCreateInsertUnchecked(c) ==
    /\ pc[c] = "INSERT"
    /\ LET data == call[c].data
           row == [InsertRow(data, nextId, now) EXCEPT
                      !.status = IF Has(data, "status") THEN data.status ELSE "active"]
       IN  /\ nextId' = NextVal(nextId)
           /\ resources' = resources \cup {row}
           /\ lastCreated' = mapRowToResource(row)
           /\ Finish(c, Returned("create", mapRowToResource(row), 1))
    /\ UNCHANGED <<now, call, deleted, apiKey, req, cache>>

\* the INSERT ... RETURNING * statement executes
ModelCreateInsert(c) ==
    /\ pc[c] = "INSERT"
    /\ LET row == InsertRow(call[c].data, nextId, now) IN
        /\ nextId' = NextVal(nextId)
        /\ IF RowConstraintsOk(row)
           THEN /\ resources' = resources \cup {row}
                /\ lastCreated' = mapRowToResource(row)
                /\ Finish(c, Returned("create", mapRowToResource(row), 1))
           ELSE /\ resources' = resources
                /\ lastCreated' = lastCreated
                /\ Finish(c, Threw("create", DatabaseError, 1))
    /\ UNCHANGED <<now, call, deleted, apiKey, req, cache>>

(***************************************************************************)
(* ResourceService.findById -> ResourceModel.findById                      *)
(***************************************************************************)
ServiceFindById(c, id) ==
    /\ pc[c] = "idle"
    /\ call' = [call EXCEPT ![c] = [op |-> "findById", id |-> id]]
    /\ Await(c, "findById", "SELECT", 0)
    /\ UNCHANGED <<resources, nextId, now, lastCreated, deleted>>

\* the resource ResourceModel.findById returns for the rows the SELECT found
findByIdResult(rows) ==
    IF rows = {} THEN {} ELSE {mapRowToResource(CHOOSE r \in rows : TRUE)}

ModelFindByIdSelect(c) ==
    /\ pc[c] = "SELECT"
    /\ LET found == findByIdResult(SelectById(resources, call[c].id)) IN
        IF found = {}
        THEN Finish(c, Threw("findById", NotFoundError(notFoundMessage(call[c].id)), 1))
        ELSE Finish(c, Returned("findById", CHOOSE r \in found : TRUE, 1))
    /\ UNCHANGED <<resources, nextId, now, call, lastCreated, deleted, apiKey, req, cache>>

(***************************************************************************)
(* ResourceService.update -> ResourceModel.update                          *)
(***************************************************************************)
\* mutant: the model is called first, the data is validated on its return
ServiceUpdateLooksUpFirst(c, id, data) ==
    /\ pc[c] = "idle"
    /\ call' = [call EXCEPT ![c] = [op |-> "update", id |-> id, data |-> data]]
    /\ Await(c, "update", "UPDATE_SELECT", 0)
    /\ UNCHANGED <<resources, nextId, now, lastCreated, deleted>>

ServiceUpdate(c, id, data) ==
    /\ pc[c] = "idle"
    /\ call' = [call EXCEPT ![c] = [op |-> "update", id |-> id, data |-> data]]
    /\ IF validateUpdateData(data) # NoError
       THEN Finish(c, Threw("update", validateUpdateData(data), 0))
       ELSE Await(c, "update", "UPDATE_SELECT", 0)
    /\ UNCHANGED <<resources, nextId, now, lastCreated, deleted>>

\* mutant: an empty SET list is not detected, the UPDATE statement is sent
NoUpdatesNever(data) == FALSE

\* updates.length === 0
NoUpdates(data) == ~Has(data, "name") /\ ~Has(data, "description") /\ ~Has(data, "status")

\* const existing = await this.findById(id), and the two early returns
ModelUpdateSelect(c) ==
    /\ pc[c] = "UPDATE_SELECT"
    /\ LET existing == findByIdResult(SelectById(resources, call[c].id)) IN
        IF existing = {}
        THEN Finish(c, Threw("update", NotFoundError(notFoundMessage(call[c].id)), 1))
        ELSE IF NoUpdates(call[c].data)
        THEN Finish(c, Returned("update", CHOOSE r \in existing : TRUE, 1))
        ELSE Await(c, "update", "UPDATE", 1)
    /\ UNCHANGED <<resources, nextId, now, call, lastCreated, deleted, apiKey, req, cache>>

\* mutant: an UPDATE that hits no row is not told from one that does, the
\* call returns what the lookup found
ModelUpdateQueryTrustsLookup(c) ==
    /\ pc[c] = "UPDATE"
    /\ LET hit == SelectById(resources, call[c].id)
           new == {UpdateSet(r, call[c].data, now) : r \in hit}
       IN  /\ resources' = (resources \ hit) \cup new
           /\ lastCreated' = IF lastCreated.id = call[c].id THEN NoResource ELSE lastCreated
           /\ Finish(c, Returned("update", [id |-> call[c].id], 2))
    /\ UNCHANGED <<nextId, now, call, deleted, apiKey, req, cache>>

\* the UPDATE ... WHERE id = $n RETURNING * statement executes
ModelUpdateQuery(c) ==
    /\ pc[c] = "UPDATE"
    /\ LET hit == SelectById(resources, call[c].id)
           new == {UpdateSet(r, call[c].data, now) : r \in hit}
       IN  IF hit = {}
           THEN /\ resources' = resources
                /\ lastCreated' = lastCreated
                /\ Finish(c, Threw("update", NotFoundError(notFoundMessage(call[c].id)), 2))
           ELSE IF \A r \in new : RowConstraintsOk(r)
           THEN /\ resources' = (resources \ hit) \cup new
                /\ lastCreated' = IF lastCreated.id = call[c].id THEN NoResource ELSE lastCreated
                /\ Finish(c, Returned("update", mapRowToResource(CHOOSE r \in new : TRUE), 2))
           ELSE /\ resources' = resources
                /\ lastCreated' = lastCreated
                /\ Finish(c, Threw("update", DatabaseError, 2))
    /\ UNCHANGED <<nextId, now, call, deleted, apiKey, req, cache>>

(***************************************************************************)
(* ResourceService.delete -> ResourceModel.delete                          *)
(***************************************************************************)
ServiceDelete(c, id) ==
    /\ pc[c] = "idle"
    /\ call' = [call EXCEPT ![c] =
           [op |-> "delete", id |-> id,
            \* history: the client repeats its previous delete(id), which threw
            retry |-> call[c].op = "delete" /\ call[c].id = id /\ res[c].kind = "threw"]]
    /\ Await(c, "delete", "DELETE", 0)
    /\ UNCHANGED <<resources, nextId, now, lastCreated, deleted>>

\* mutant: counts the rows of the table
rowCountAll(rows, id) == Cardinality(rows)

\* result.rowCount of the DELETE statement
rowCount(rows, id) == Cardinality(SelectById(rows, id))

ModelDeleteQuery(c) ==
    /\ pc[c] = "DELETE"
    /\ resources' = DeleteWhere(resources, call[c].id)
    /\ IF rowCount(resources, call[c].id) > 0
       THEN /\ Finish(c, Returned("delete", "void", 1))
            /\ deleted' = deleted \cup {call[c].id}
            /\ lastCreated' = IF lastCreated.id = call[c].id THEN NoResource ELSE lastCreated
       ELSE /\ Finish(c, Threw("delete", NotFoundError(notFoundMessage(call[c].id)), 1))
            /\ UNCHANGED <<deleted, lastCreated>>
    /\ UNCHANGED <<nextId, now, call, apiKey, req, cache>>

(***************************************************************************)
(* ResourceService.findAll -> ResourceModel.findAll                        *)
(***************************************************************************)
DefaultPage == 1
DefaultLimit == 10
MaxLimit == 100

\* mutant: the checks test the value for truthiness, not for undefined
validateFiltersTruthy(filters) ==
    IF Has(filters, "page") /\ filters.page # 0 /\ filters.page < 1
    THEN ValidationError(<<"Page must be greater than 0">>)
    ELSE IF Has(filters, "limit") /\ filters.limit # 0 /\
            (filters.limit < 1 \/ filters.limit > MaxLimit)
    THEN ValidationError(<<"Limit must be between 1 and 100">>)
    ELSE NoError

\* the pagination checks of ResourceService.findAll
validateFilters(filters) ==
    IF Has(filters, "page") /\ filters.page < 1
    THEN ValidationError(<<"Page must be greater than 0">>)
    ELSE IF Has(filters, "limit") /\ (filters.limit < 1 \/ filters.limit > MaxLimit)
    THEN ValidationError(<<"Limit must be between 1 and 100">>)
    ELSE NoError

\* filters.page || 1 and filters.limit || 10
effectivePage(filters) ==
    IF Has(filters, "page") /\ filters.page # 0 THEN filters.page ELSE DefaultPage

effectiveLimit(filters) ==
    IF Has(filters, "limit") /\ filters.limit # 0 THEN filters.limit ELSE DefaultLimit

\* `%${filters.search}%`
searchTerm(search) == Repeat("%", 1) \o search \o Repeat("%", 1)

\* WHERE 1=1 [AND status = $n] [AND (name ILIKE $n OR description ILIKE $n+1)]
whereClause(row, filters) ==
    /\ ~FalsyStatus(filters) => row.status = filters.status
    /\ ~Falsy(filters, "search") =>
          \/ ILike(row.name, searchTerm(filters.search))
          \/ ILike(row.description, searchTerm(filters.search))

Matching(rows, filters) == {r \in rows : whereClause(r, filters)}

\* ORDER BY "createdAt" DESC: every order of the rows the clause allows
\* (rows of equal createdAt come in any order)
OrderByCreatedAtDesc(rows) ==
    {s \in [1..Cardinality(rows) -> rows] :
        /\ \A i, j \in DOMAIN s : i # j => s[i] # s[j]
        /\ \A i, j \in DOMAIN s : i < j => s[i].createdAt >= s[j].createdAt}

\* mutant: OFFSET is left out of the statement
LimitWithoutOffset(s, limit, offset) ==
    [i \in 1..(IF Len(s) < limit THEN Len(s) ELSE limit) |-> s[i]]

\* LIMIT $limit OFFSET $offset
LimitOffset(s, limit, offset) ==
    [i \in 1..(IF Len(s) - offset < limit
                THEN (IF Len(s) - offset < 0 THEN 0 ELSE Len(s) - offset)
                ELSE limit) |-> s[offset + i]]

\* mutant: the quotient rounded down
totalPagesFloor(total, limit) == total \div limit

\* Math.ceil(total / limit)
totalPages(total, limit) == (total + limit - 1) \div limit

ServiceFindAll(c, filters) ==
    /\ pc[c] = "idle"
    /\ call' = [call EXCEPT ![c] = [op |-> "findAll", filters |-> filters, total |-> 0]]
    /\ IF validateFilters(filters) # NoError
       THEN Finish(c, Threw("findAll", validateFilters(filters), 0))
       ELSE Await(c, "findAll", "COUNT", 0)
    /\ UNCHANGED <<resources, nextId, now, lastCreated, deleted>>

\* SELECT COUNT(*) as total FROM resources <where> executes
ModelFindAllCount(c) ==
    /\ pc[c] = "COUNT"
    /\ call' = [call EXCEPT ![c].total = Cardinality(Matching(resources, call[c].filters))]
    /\ Await(c, "findAll", "PAGE", 1)
    /\ UNCHANGED <<resources, nextId, now, lastCreated, deleted, apiKey, req, cache>>

\* SELECT * FROM resources <where> ORDER BY ... LIMIT ... OFFSET ... executes
ModelFindAllPage(c) ==
    /\ pc[c] = "PAGE"
    /\ LET filters == call[c].filters
           page == effectivePage(filters)
           limit == effectiveLimit(filters)
           offset == (page - 1) * limit
       IN  \E ordered \in OrderByCreatedAtDesc(Matching(resources, filters)) :
             Finish(c, Returned("findAll",
                 [data |-> [i \in DOMAIN LimitOffset(ordered, limit, offset) |->
                               mapRowToResource(LimitOffset(ordered, limit, offset)[i])],
                  pagination |-> [page |-> page,
                                  limit |-> limit,
                                  total |-> call[c].total,
                                  totalPages |-> totalPages(call[c].total, limit)]],
                 2))
    /\ UNCHANGED <<resources, nextId, now, call, lastCreated, deleted, apiKey, req, cache>>

\* a call made on the service itself, as the unit tests make it: no request
\* passes the router
DirectCall == UNCHANGED <<apiKey, req, cache>>

\* time passes at the store
Tick ==
    /\ now < MaxClock
    /\ now' = now + 1
    /\ UNCHANGED <<resources, nextId, pc, call, res, lastCreated, deleted, apiKey, req, cache>>

Next ==
    \/ \E c \in DOMAIN pc, data \in CreateInputs : ServiceCreate(c, data) /\ DirectCall
    \/ \E c \in DOMAIN pc : ModelCreateInsert(c)
    \/ \E c \in DOMAIN pc, id \in Ids : ServiceFindById(c, id) /\ DirectCall
    \/ \E c \in DOMAIN pc : ModelFindByIdSelect(c)
    \/ \E c \in DOMAIN pc, u \in UpdateCalls : ServiceUpdate(c, u[1], u[2]) /\ DirectCall
    \/ \E c \in DOMAIN pc : ModelUpdateSelect(c)
    \/ \E c \in DOMAIN pc : ModelUpdateQuery(c)
    \/ \E c \in DOMAIN pc, id \in Ids : ServiceDelete(c, id) /\ DirectCall
    \/ \E c \in DOMAIN pc : ModelDeleteQuery(c)
    \/ \E c \in DOMAIN pc, filters \in FindAllInputs : ServiceFindAll(c, filters) /\ DirectCall
    \/ \E c \in DOMAIN pc : ModelFindAllCount(c)
    \/ \E c \in DOMAIN pc : ModelFindAllPage(c)
    \/ Tick

Spec == Init /\ [][Next]_vars

(***************************************************************************)
(* The service at the edges of its input domain: lengths at and beyond the *)
(* limits, statuses that are falsy or not enumerated, pagination at and    *)
(* beyond its limits, a search term with a LIKE wildcard.  The clock       *)
(* stands still.                                                           *)
(***************************************************************************)
name255 == Repeat("a", MaxNameLength)
desc1000 == Repeat("d", MaxDescriptionLength)

EdgeCreateInputs ==
    { [name |-> name255, description |-> desc1000],
      [name |-> nameTooLong, description |-> descX],
      [name |-> nameAb, description |-> descTooLong],
      [name |-> nameAb, description |-> descX, status |-> ""],
      [name |-> nameAb, description |-> descX, status |-> "deleted"] }

EdgeUpdateInputs ==
    { [name |-> name255],
      [name |-> nameTooLong],
      [description |-> desc1000],
      [description |-> descTooLong],
      [status |-> "inactive"],
      [status |-> ""],
      [status |-> "deleted"] }

EdgeFindAllInputs ==
    { [page |-> 0],
      [page |-> 1],
      [limit |-> 0],
      [limit |-> 1],
      [limit |-> MaxLimit],
      [limit |-> MaxLimit + 1],
      [status |-> "active", search |-> Str(<<"D">>)],
      [search |-> Str(<<"_">>)] }

\* data that break several rules at once
ManyFaultsCreateInputs ==
    { [name |-> nameBlank, description |-> descTooLong, status |-> "deleted"],
      [description |-> descBlank],
      [name |-> Repeat(" ", MaxNameLength + 1), description |-> descX],
      [name |-> nameTooLong, description |-> descBlank, status |-> "deleted"],
      [name |-> nameAb, status |-> "deleted"],
      [name |-> nameAb, description |-> descBlank, status |-> "deleted"],
      [name |-> nameAb, description |-> descTooLong, status |-> "deleted"] }

ManyFaultsUpdateInputs ==
    { [name |-> nameBlank, description |-> descTooLong, status |-> "deleted"],
      [name |-> Repeat(" ", MaxNameLength + 1), status |-> "deleted"],
      [name |-> nameTooLong, description |-> descBlank],
      [description |-> descBlank, status |-> "deleted"],
      [description |-> descTooLong, status |-> "deleted"] }

NextEdge ==
    \/ \E c \in DOMAIN pc, data \in EdgeCreateInputs \cup ManyFaultsCreateInputs :
          ServiceCreate(c, data) /\ DirectCall
    \/ \E c \in DOMAIN pc : ModelCreateInsert(c)
    \/ \E c \in DOMAIN pc, data \in EdgeUpdateInputs \cup ManyFaultsUpdateInputs :
          ServiceUpdate(c, 1, data) /\ DirectCall
    \/ \E c \in DOMAIN pc : ModelUpdateSelect(c)
    \/ \E c \in DOMAIN pc : ModelUpdateQuery(c)
    \/ \E c \in DOMAIN pc, id \in Ids : ServiceDelete(c, id) /\ DirectCall
    \/ \E c \in DOMAIN pc : ModelDeleteQuery(c)
    \/ \E c \in DOMAIN pc, filters \in EdgeFindAllInputs : ServiceFindAll(c, filters) /\ DirectCall
    \/ \E c \in DOMAIN pc : ModelFindAllCount(c)
    \/ \E c \in DOMAIN pc : ModelFindAllPage(c)

SpecEdge == Init /\ [][NextEdge]_vars

(***************************************************************************)
(* Paging through a store at rest: the rows are created first, then two    *)
(* clients ask for pages of it and nothing writes any more.                *)
(***************************************************************************)
PagingClients == {"p1", "p2"}

PagingCreateInputs == { [name |-> nameAb, description |-> descX] }

PageLimit == 1

PagingFindAllInputs ==
    { [page |-> 1, limit |-> PageLimit],
      [page |-> 2, limit |-> PageLimit] }

\* no findAll has been asked for yet
NoPageAsked == \A c \in DOMAIN pc : call[c].op # "findAll"

\* no create is in flight
NoCreateInFlight == \A c \in DOMAIN pc : pc[c] # "INSERT"

NextPaging ==
    \/ \E c \in DOMAIN pc, data \in PagingCreateInputs :
          NoPageAsked /\ ServiceCreate(c, data) /\ DirectCall
    \/ \E c \in DOMAIN pc : ModelCreateInsert(c)
    \/ \E c \in DOMAIN pc, filters \in PagingFindAllInputs :
          NoCreateInFlight /\ ServiceFindAll(c, filters) /\ DirectCall
    \/ \E c \in DOMAIN pc : ModelFindAllCount(c)
    \/ \E c \in DOMAIN pc : ModelFindAllPage(c)
    \/ Tick

SpecPaging == InitFor(PagingClients) /\ [][NextPaging]_vars

(***************************************************************************)
(* The HTTP layer: routes/resourceRoutes.ts.  A request to /api/resources  *)
(* passes router.use(authenticateApiKey), then the validation chain of its *)
(* route and handleValidationErrors, then its ResourceController method,   *)
(* which calls the service.  All of it runs in one turn of the event loop, *)
(* up to the first store statement the service awaits.                     *)
(***************************************************************************)
\* process.env.API_KEY is set to value
ApiKeySet(value) == [set |-> TRUE, value |-> value]

\* !validApiKey: the variable is undefined or ''
NotConfigured(key) == ~key.set \/ key.value = ""

\* apiKeyFromHeader || apiKeyFromQuery: the set holding the key provided,
\* empty where neither source has a truthy one
providedApiKey(r) ==
    IF Has(r.headers, "x-api-key") /\ r.headers["x-api-key"] # ""
    THEN {r.headers["x-api-key"]}
    ELSE IF Has(r.query, "apiKey") /\ r.query.apiKey # ""
    THEN {r.query.apiKey}
    ELSE {}

ApiKeyRequired ==
    <<"API key is required. Please provide it in the X-API-Key header or apiKey query parameter.">>

InvalidApiKey == <<"Invalid API key.">>

\* mutant: only the header is read
authenticateHeaderOnly(key, r) ==
    IF NotConfigured(key) THEN NoError
    ELSE IF ~Has(r.headers, "x-api-key") \/ r.headers["x-api-key"] = ""
    THEN UnauthorizedError(ApiKeyRequired)
    ELSE IF r.headers["x-api-key"] # key.value
    THEN UnauthorizedError(InvalidApiKey)
    ELSE NoError

\* authenticateApiKey: the error it throws, or NoError where it calls next()
authenticateApiKey(key, r) ==
    IF NotConfigured(key) THEN NoError
    ELSE IF providedApiKey(r) = {} THEN UnauthorizedError(ApiKeyRequired)
    ELSE IF providedApiKey(r) # {key.value} THEN UnauthorizedError(InvalidApiKey)
    ELSE NoError

(***************************************************************************)
(* middleware/validation.ts: the express-validator chains.  A chain gives  *)
(* the messages of the checks its field fails; a path parameter or a       *)
(* query number is the sequence of its characters.                         *)
(***************************************************************************)
Digits == <<"0", "1", "2", "3", "4", "5", "6", "7", "8", "9">>

IsDigit(ch) == \E i \in DOMAIN Digits : Digits[i] = ch

DigitValue(ch) == (CHOOSE i \in DOMAIN Digits : Digits[i] = ch) - 1

\* NaN, as parseInt returns it
NaN == -1

\* parseInt(s, 10) of an unsigned string: the value of its longest prefix
\* of digits, NaN where that is empty
RECURSIVE parseDigits(_, _)
parseDigits(s, acc) ==
    IF s = <<>> \/ ~IsDigit(Head(s)) THEN acc
    ELSE parseDigits(Tail(s), 10 * acc + DigitValue(Head(s)))

parseInt(s) == IF s = <<>> \/ ~IsDigit(Head(s)) THEN NaN ELSE parseDigits(s, 0)

\* the strings isInt takes for integers: decimal digits, no leading zero
IsInteger(s) ==
    /\ s # <<>>
    /\ \A i \in DOMAIN s : IsDigit(s[i])
    /\ Len(s) = 1 \/ s[1] # "0"

\* isInt({ min }) and isInt({ min, max })
isIntMin(s, min) == IsInteger(s) /\ parseInt(s) >= min

isInt(s, min, max) == isIntMin(s, min) /\ parseInt(s) <= max

\* .trim().notEmpty().withMessage(required).isLength({ max }).withMessage(tooLong)
textChain(data, f, max, required, tooLong) ==
    LET v == IF Has(data, f) THEN trim(data[f]) ELSE <<>>
    IN  IF length(v) = 0 THEN <<required>>
        ELSE IF length(v) > max THEN <<tooLong>>
        ELSE <<>>

\* .optional() before the chain: a field that is undefined is not checked
optionalTextChain(data, f, max, required, tooLong) ==
    IF Has(data, f) THEN textChain(data, f, max, required, tooLong) ELSE <<>>

\* .optional().isIn(['active', 'inactive'])
statusChain(data) ==
    IF Has(data, "status") /\ data.status \notin StatusValues
    THEN <<"Status must be either \"active\" or \"inactive\"">>
    ELSE <<>>

validateCreateResource(body) ==
    textChain(body, "name", MaxNameLength,
              "Name is required", "Name must be less than 255 characters")
    \o textChain(body, "description", MaxDescriptionLength,
                 "Description is required", "Description must be less than 1000 characters")
    \o statusChain(body)

validateUpdateResource(body) ==
    optionalTextChain(body, "name", MaxNameLength,
                      "Name cannot be empty", "Name must be less than 255 characters")
    \o optionalTextChain(body, "description", MaxDescriptionLength,
                         "Description cannot be empty",
                         "Description must be less than 1000 characters")
    \o statusChain(body)

validateQueryParams(query) ==
    statusChain(query)
    \o (IF Has(query, "page") /\ ~isIntMin(query.page, 1)
        THEN <<"Page must be a positive integer">> ELSE <<>>)
    \o (IF Has(query, "limit") /\ ~isInt(query.limit, 1, MaxLimit)
        THEN <<"Limit must be between 1 and 100">> ELSE <<>>)
    \o (IF Has(query, "search") /\ length(trim(query.search)) > MaxNameLength
        THEN <<"Search term must be less than 255 characters">> ELSE <<>>)

\* errorMessages.join(', ')
RECURSIVE Join(_)
Join(msgs) ==
    IF Len(msgs) <= 1 THEN msgs ELSE <<Head(msgs), ", ">> \o Join(Tail(msgs))

\* handleValidationErrors: the error it throws, or NoError where it calls next()
handleValidationErrors(msgs) ==
    IF msgs # <<>> THEN ValidationError(Join(msgs)) ELSE NoError

\* the request data as the chains leave it: .trim() has replaced the text
\* fields it ran on
Sanitized(data, fields) ==
    [f \in DOMAIN data |-> IF f \in fields THEN trim(data[f]) ELSE data[f]]

(***************************************************************************)
(* controllers/ResourceController.ts and the routes.                       *)
(***************************************************************************)
\* the filters ResourceController.findAll builds from the query string
controllerFilters(query) ==
    LET given == {f \in {"status", "search"} : Has(query, f)}
        numbers == {f \in {"page", "limit"} : Has(query, f) /\ query[f] # <<>>}
    IN  [f \in given \cup numbers |->
            IF f \in numbers THEN parseInt(query[f]) ELSE query[f]]

\* the response of a controller to an id that parseInt makes NaN
InvalidIdResponse ==
    [status |-> 400,
     body |-> [success |-> FALSE,
               error |-> [message |-> <<"Invalid resource ID">>, statusCode |-> 400]]]

\* client c sends request r
Receives(c, r) ==
    /\ pc[c] = "idle"
    /\ req' = [req EXCEPT ![c] = r]
    /\ apiKey' = apiKey
    /\ cache' = cache

\* a middleware throws e: no controller runs, no service call is made
Rejected(c, e) ==
    /\ call' = [call EXCEPT ![c] = NoCall]
    /\ Finish(c, Threw("request", e, 0))
    /\ UNCHANGED <<resources, nextId, now, lastCreated, deleted>>

\* a controller answers by itself, without a service call
Answered(c, response) ==
    /\ call' = [call EXCEPT ![c] = NoCall]
    /\ Finish(c, Returned("request", response, 0))
    /\ UNCHANGED <<resources, nextId, now, lastCreated, deleted>>

\* mutant: the route is registered before router.use(authenticateApiKey)
\* takes effect for it, the validation chain runs first
PostResourceValidatesFirst(c, r) ==
    /\ Receives(c, r)
    /\ IF handleValidationErrors(validateCreateResource(r.body)) # NoError
       THEN Rejected(c, handleValidationErrors(validateCreateResource(r.body)))
       ELSE IF authenticateApiKey(apiKey, r) # NoError
       THEN Rejected(c, authenticateApiKey(apiKey, r))
       ELSE ServiceCreate(c, Sanitized(r.body, {"name", "description"}))

\* POST /: authenticateApiKey, validateCreateResource,
\* handleValidationErrors, ResourceController.create
PostResource(c, r) ==
    /\ Receives(c, r)
    /\ IF authenticateApiKey(apiKey, r) # NoError
       THEN Rejected(c, authenticateApiKey(apiKey, r))
       ELSE IF handleValidationErrors(validateCreateResource(r.body)) # NoError
       THEN Rejected(c, handleValidationErrors(validateCreateResource(r.body)))
       ELSE ServiceCreate(c, Sanitized(r.body, {"name", "description"}))

\* GET /: authenticateApiKey, validateQueryParams, handleValidationErrors,
\* ResourceController.findAll
GetResources(c, r) ==
    /\ Receives(c, r)
    /\ IF authenticateApiKey(apiKey, r) # NoError
       THEN Rejected(c, authenticateApiKey(apiKey, r))
       ELSE IF handleValidationErrors(validateQueryParams(r.query)) # NoError
       THEN Rejected(c, handleValidationErrors(validateQueryParams(r.query)))
       ELSE ServiceFindAll(c, controllerFilters(Sanitized(r.query, {"search"})))

\* GET /:id: authenticateApiKey, ResourceController.findById
GetResource(c, r) ==
    /\ Receives(c, r)
    /\ IF authenticateApiKey(apiKey, r) # NoError
       THEN Rejected(c, authenticateApiKey(apiKey, r))
       ELSE IF parseInt(r.params.id) = NaN
       THEN Answered(c, InvalidIdResponse)
       ELSE ServiceFindById(c, parseInt(r.params.id))

\* PUT /:id: authenticateApiKey, validateUpdateResource,
\* handleValidationErrors, ResourceController.update
PutResource(c, r) ==
    /\ Receives(c, r)
    /\ IF authenticateApiKey(apiKey, r) # NoError
       THEN Rejected(c, authenticateApiKey(apiKey, r))
       ELSE IF handleValidationErrors(validateUpdateResource(r.body)) # NoError
       THEN Rejected(c, handleValidationErrors(validateUpdateResource(r.body)))
       ELSE IF parseInt(r.params.id) = NaN
       THEN Answered(c, InvalidIdResponse)
       ELSE ServiceUpdate(c, parseInt(r.params.id),
                          Sanitized(r.body, {"name", "description"}))

\* DELETE /:id: authenticateApiKey, ResourceController.delete
DeleteResource(c, r) ==
    /\ Receives(c, r)
    /\ IF authenticateApiKey(apiKey, r) # NoError
       THEN Rejected(c, authenticateApiKey(apiKey, r))
       ELSE IF parseInt(r.params.id) = NaN
       THEN Answered(c, InvalidIdResponse)
       ELSE ServiceDelete(c, parseInt(r.params.id))

(***************************************************************************)
(* The requests of the HTTP clients, and the server with and without an    *)
(* API key configured.                                                     *)
(***************************************************************************)
Header(value) == [h \in {"x-api-key"} |-> value]

QueryKey(value) == [q \in {"apiKey"} |-> value]

\* what a request carries of keys: none, the right or a wrong one in the
\* header or in the query string, and both at once
Credentials ==
    { [headers |-> <<>>, query |-> <<>>],
      [headers |-> Header("secret"), query |-> <<>>],
      [headers |-> Header("wrong"), query |-> <<>>],
      [headers |-> <<>>, query |-> QueryKey("secret")],
      [headers |-> <<>>, query |-> QueryKey("wrong")],
      [headers |-> Header("wrong"), query |-> QueryKey("secret")],
      [headers |-> Header(""), query |-> QueryKey("secret")] }

Merge(f, g) ==
    [k \in DOMAIN f \cup DOMAIN g |-> IF k \in DOMAIN f THEN f[k] ELSE g[k]]

Request(route, cred, id, query, body) ==
    [route |-> route,
     headers |-> cred.headers,
     query |-> Merge(cred.query, query),
     params |-> [id |-> id],
     body |-> body]

PostRequests ==
    { Request("POST /", cred, <<>>, <<>>, body) :
        cred \in Credentials,
        body \in { [name |-> nameAb, description |-> descX],
                   [name |-> nameBlank, description |-> descX, status |-> "deleted"] } }

GetAllRequests ==
    { Request("GET /", cred, <<>>, query, <<>>) :
        cred \in Credentials,
        query \in { <<>>, [page |-> <<"0">>] } }

\* the :id segment of a path: a number, no number, a number followed by a
\* letter
IdSegments == { <<"1">>, <<"x">>, <<"1", "a">> }

GetOneRequests ==
    { Request("GET /:id", cred, id, <<>>, <<>>) :
        cred \in Credentials, id \in IdSegments }

PutRequests ==
    { Request("PUT /:id", cred, id, <<>>, body) :
        cred \in Credentials, id \in IdSegments,
        body \in { [name |-> nameCd], [status |-> "deleted"] } }

DeleteRequests ==
    { Request("DELETE /:id", cred, id, <<>>, <<>>) :
        cred \in Credentials, id \in IdSegments }

ApiKeyConfigs == {NoApiKey, ApiKeySet("secret")}

NextHttp ==
    \/ \E c \in DOMAIN pc, r \in PostRequests : PostResource(c, r)
    \/ \E c \in DOMAIN pc, r \in GetAllRequests : GetResources(c, r)
    \/ \E c \in DOMAIN pc, r \in GetOneRequests : GetResource(c, r)
    \/ \E c \in DOMAIN pc, r \in PutRequests : PutResource(c, r)
    \/ \E c \in DOMAIN pc, r \in DeleteRequests : DeleteResource(c, r)
    \/ \E c \in DOMAIN pc : ModelCreateInsert(c)
    \/ \E c \in DOMAIN pc : ModelFindAllCount(c)
    \/ \E c \in DOMAIN pc : ModelFindAllPage(c)
    \/ \E c \in DOMAIN pc : ModelFindByIdSelect(c)
    \/ \E c \in DOMAIN pc : ModelUpdateSelect(c)
    \/ \E c \in DOMAIN pc : ModelUpdateQuery(c)
    \/ \E c \in DOMAIN pc : ModelDeleteQuery(c)

SpecHttp == InitWith(Clients, ApiKeyConfigs) /\ [][NextHttp]_vars

(***************************************************************************)
(* errorHandler (routes/resourceRoutes.ts), the last middleware.  Express *)
(* calls it with the error a middleware or a controller handed to next;    *)
(* it gives the responses the handler sends, in the order it sends them.   *)
(***************************************************************************)
ConflictError(message) == AppError("ConflictError", message, 409)

\* err instanceof AppError: the classes with AppError.prototype in their
\* prototype chain
InstanceOfAppError(err) ==
    err.name \in {"AppError", "NotFoundError", "ValidationError",
                  "ConflictError", "UnauthorizedError"}

\* res.status(statusCode).json({success: false, error: {message, statusCode}})
ErrorResponse(statusCode, message) ==
    [status |-> statusCode,
     body |-> [success |-> FALSE,
               error |-> [message |-> message, statusCode |-> statusCode]]]

\* mutant: no return after the response to an AppError
errorHandlerFallsThrough(err, nodeEnv) ==
    (IF InstanceOfAppError(err)
     THEN <<ErrorResponse(err.statusCode, err.message)>>
     ELSE <<>>)
    \o <<ErrorResponse(500, IF nodeEnv = "production"
                            THEN <<"Internal server error">> ELSE err.message)>>

errorHandler(err, nodeEnv) ==
    IF InstanceOfAppError(err)
    THEN <<ErrorResponse(err.statusCode, err.message)>>
    ELSE <<ErrorResponse(500, IF nodeEnv = "production"
                              THEN <<"Internal server error">> ELSE err.message)>>

\* the errors handed to the handler: one of each subclass of AppError, the
\* error of a failed statement, a plain Error, and an error of another
\* library that carries a statusCode without being an AppError
ErrorInputs ==
    {ValidationError(<<"Name is required">>),
     NotFoundError(notFoundMessage(1)),
     NotFoundError(<<"Resource not found">>),
     UnauthorizedError(InvalidApiKey),
     ConflictError(<<"Resource conflict">>),
     DatabaseError,
     [name |-> "Error", message |-> <<"connect ECONNREFUSED">>],
     [name |-> "SyntaxError", message |-> <<"Unexpected token">>, statusCode |-> 400]}

\* values of process.env.NODE_ENV
NodeEnvs == {"production", "development", "test"}

\* Express calls errorHandler for the failed request of client c
ErrorMiddleware(c, err, nodeEnv) ==
    /\ pc[c] = "idle"
    /\ call' = [call EXCEPT ![c] = [op |-> "errorHandler", err |-> err, NODE_ENV |-> nodeEnv]]
    /\ Finish(c, Returned("errorHandler", errorHandler(err, nodeEnv), 0))
    /\ UNCHANGED <<resources, nextId, now, lastCreated, deleted, apiKey, req, cache>>

NextErrors ==
    \E c \in DOMAIN pc, err \in ErrorInputs, nodeEnv \in NodeEnvs :
        ErrorMiddleware(c, err, nodeEnv)

\* two failed requests are answered
SpecErrors == InitFor({"e1", "e2"}) /\ [][NextErrors]_vars

(***************************************************************************)
(* Two requests served at once.  The event loop hands each store statement *)
(* to the pool as its call reaches it, so the statements of two calls      *)
(* execute in any order that keeps the order within each call.  The clock  *)
(* stands still.                                                           *)
(***************************************************************************)
RaceUpdateInputs == { [name |-> nameCd], <<>> }

RaceFindAllInputs == { <<>>, [page |-> 2, limit |-> PageLimit] }

NextRace ==
    \/ \E c \in DOMAIN pc, data \in PagingCreateInputs : ServiceCreate(c, data) /\ DirectCall
    \/ \E c \in DOMAIN pc : ModelCreateInsert(c)
    \/ \E c \in DOMAIN pc, data \in RaceUpdateInputs : ServiceUpdate(c, 1, data) /\ DirectCall
    \/ \E c \in DOMAIN pc : ModelUpdateSelect(c)
    \/ \E c \in DOMAIN pc : ModelUpdateQuery(c)
    \/ \E c \in DOMAIN pc : ServiceDelete(c, 1) /\ DirectCall
    \/ \E c \in DOMAIN pc : ModelDeleteQuery(c)
    \/ \E c \in DOMAIN pc, filters \in RaceFindAllInputs : ServiceFindAll(c, filters) /\ DirectCall
    \/ \E c \in DOMAIN pc : ModelFindAllCount(c)
    \/ \E c \in DOMAIN pc : ModelFindAllPage(c)

SpecRace == InitFor({"r1", "r2"}) /\ [][NextRace]_vars

(***************************************************************************)
(* Two updates of one row at once: the rows are created first, then each   *)
(* of two clients makes one update of id 1.                                *)
(***************************************************************************)
LastWriteUpdateInputs ==
    { <<>>,
      [name |-> nameCd],
      [name |-> nameEf, status |-> "inactive"],
      [description |-> descY],
      [description |-> descY, status |-> "active"] }

NextLastWrite ==
    \/ \E c \in DOMAIN pc, data \in PagingCreateInputs :
          /\ \A o \in DOMAIN pc : call[o].op # "update"
          /\ ServiceCreate(c, data)
          /\ DirectCall
    \/ \E c \in DOMAIN pc : ModelCreateInsert(c)
    \/ \E c \in DOMAIN pc, data \in LastWriteUpdateInputs :
          /\ call[c].op # "update"
          /\ NoCreateInFlight
          /\ SelectById(resources, 1) # {}
          /\ ServiceUpdate(c, 1, data)
          /\ DirectCall
    \/ \E c \in DOMAIN pc : ModelUpdateSelect(c)
    \/ \E c \in DOMAIN pc : ModelUpdateQuery(c)
    \/ Tick

SpecLastWrite == InitFor({"w1", "w2"}) /\ [][NextLastWrite]_vars

(***************************************************************************)
(* problem_4: sum_to_n.ts and sum_to_n_alternatives.ts, eight functions    *)
(* that sum the integers from 1 to n.  The script calls them one after     *)
(* another; only sum_to_n_f keeps state between calls, its cache.          *)
(***************************************************************************)
MaxN == 5

\* the arguments: negative, zero, positive, 5 among them
SumInputs == (0 - MaxN)..MaxN

\* for (let i = 1; i <= n; i++) { sum += i; }
RECURSIVE forLoop(_, _, _)
forLoop(i, sum, n) == IF i <= n THEN forLoop(i + 1, sum + i, n) ELSE sum

sum_to_n_a(n) == IF n <= 0 THEN 0 ELSE forLoop(1, 0, n)

RECURSIVE sum_to_n_b(_)
sum_to_n_b(n) ==
    IF n <= 0 THEN 0
    ELSE IF n = 1 THEN 1
    ELSE n + sum_to_n_b(n - 1)

\* x / 2 of JavaScript numbers: exact for the even x it is applied to, a
\* fraction otherwise, which no integer of the model equals
Half(x) == IF x % 2 = 0 THEN x \div 2 ELSE [fraction |-> <<x, 2>>]

sum_to_n_c(n) == IF n <= 0 THEN 0 ELSE Half(n * (n + 1))

\* array.reduce((sum, num) => sum + num, initial), from element k on
RECURSIVE reduce(_, _, _)
reduce(array, k, sum) ==
    IF k > Len(array) THEN sum ELSE reduce(array, k + 1, sum + array[k])

\* Array.from({ length: n }, (_, i) => i + 1), i counting from 0, reduced
sum_to_n_d(n) ==
    IF n <= 0 THEN 0 ELSE reduce([k \in 1..n |-> (k - 1) + 1], 1, 0)

RECURSIVE sum_to_n_e(_, _)
sum_to_n_e(n, accumulator) ==
    IF n <= 0 THEN accumulator ELSE sum_to_n_e(n - 1, accumulator + n)

\* the default value of the parameter accumulator
DefaultAccumulator == 0

\* sum_to_n_f with the cache as it finds it: the result and the cache as it
\* leaves it
sum_to_n_f(n, map) ==
    IF n <= 0 THEN [result |-> 0, cache |-> map]
    ELSE IF n \in DOMAIN map THEN [result |-> map[n], cache |-> map]
    ELSE [result |-> Half(n * (n + 1)),
          cache |-> [k \in DOMAIN map \cup {n} |->
                        IF k = n THEN Half(n * (n + 1)) ELSE map[k]]]

\* while (i <= n) { sum += i; i++; }
RECURSIVE whileLoop(_, _, _)
whileLoop(i, sum, n) == IF i <= n THEN whileLoop(i + 1, sum + i, n) ELSE sum

sum_to_n_g(n) == IF n <= 0 THEN 0 ELSE whileLoop(1, 0, n)

\* x & 1 and x >> 1.  The operators take their operands ToInt32, which is
\* the identity on the 32-bit integers, and the model holds no others.
BitAnd1(x) == x % 2

ShiftRight1(x) == x \div 2

\* mutant: the even branch for every n
sum_to_n_h_even(n) == IF n <= 0 THEN 0 ELSE ShiftRight1(n) * (n + 1)

sum_to_n_h(n) ==
    IF n <= 0 THEN 0
    ELSE IF BitAnd1(n) = 0
    THEN ShiftRight1(n) * (n + 1)
    ELSE ShiftRight1(n + 1) * n

\* client c calls function fn with n and gets result
SumCall(c, fn, n, result) ==
    /\ pc[c] = "idle"
    /\ call' = [call EXCEPT ![c] =
           [op |-> fn, n |-> n,
            \* history: sum_to_n_f had n in its cache
            cached |-> n \in DOMAIN cache]]
    /\ Finish(c, Returned(fn, result, 0))
    /\ UNCHANGED <<resources, nextId, now, lastCreated, deleted, apiKey, req>>

CallA(c, n) == SumCall(c, "sum_to_n_a", n, sum_to_n_a(n)) /\ cache' = cache

CallB(c, n) == SumCall(c, "sum_to_n_b", n, sum_to_n_b(n)) /\ cache' = cache

CallC(c, n) == SumCall(c, "sum_to_n_c", n, sum_to_n_c(n)) /\ cache' = cache

CallD(c, n) == SumCall(c, "sum_to_n_d", n, sum_to_n_d(n)) /\ cache' = cache

CallE(c, n) ==
    SumCall(c, "sum_to_n_e", n, sum_to_n_e(n, DefaultAccumulator)) /\ cache' = cache

CallF(c, n) ==
    /\ SumCall(c, "sum_to_n_f", n, sum_to_n_f(n, cache).result)
    /\ cache' = sum_to_n_f(n, cache).cache

CallG(c, n) == SumCall(c, "sum_to_n_g", n, sum_to_n_g(n)) /\ cache' = cache

CallH(c, n) == SumCall(c, "sum_to_n_h", n, sum_to_n_h(n)) /\ cache' = cache

NextSum ==
    \/ \E c \in DOMAIN pc, n \in SumInputs : CallA(c, n)
    \/ \E c \in DOMAIN pc, n \in SumInputs : CallB(c, n)
    \/ \E c \in DOMAIN pc, n \in SumInputs : CallC(c, n)
    \/ \E c \in DOMAIN pc, n \in SumInputs : CallD(c, n)
    \/ \E c \in DOMAIN pc, n \in SumInputs : CallE(c, n)
    \/ \E c \in DOMAIN pc, n \in SumInputs : CallF(c, n)
    \/ \E c \in DOMAIN pc, n \in SumInputs : CallG(c, n)
    \/ \E c \in DOMAIN pc, n \in SumInputs : CallH(c, n)

\* the script is the one caller
SpecSum == InitFor({"main"}) /\ [][NextSum]_vars

(***************************************************************************)
(* Properties.                                                             *)
(***************************************************************************)
\* client c executes the store statement stmt in this step
Executes(c, stmt) == pc[c] = stmt /\ pc'[c] # stmt

\* the call of client c ends in this step, returning a value
Returns(c) == pc[c] # "idle" /\ pc'[c] = "idle" /\ res'[c].kind = "returned"

RowIds(rows) == {r.id : r \in rows}

UniqueIds == \A r1, r2 \in resources : r1.id = r2.id => r1 = r2

\* C1: no two rows share an id, in every state, and the id a successful
\* create returns is the id of no row present when the INSERT executes.
C1_UniqueFreshIds ==
    [][/\ UniqueIds
       /\ UniqueIds'
       /\ \A c \in DOMAIN pc :
            (Executes(c, "INSERT") /\ Returns(c)) =>
                /\ res'[c].value.id \notin RowIds(resources)
                /\ res'[c].value.id \in RowIds(resources')]_vars

\* a create has returned id 2 after the row of id 1 was deleted: id 1 is free
\* and is not handed out again
C1_Witness ==
    \E c \in DOMAIN pc :
        /\ res[c].op = "create" /\ res[c].kind = "returned"
        /\ res[c].value.id = 2
        /\ deleted = {1}
        /\ RowIds(resources) = {2}

\* C2: a create whose data has no status returns and stores status
\* 'active'; one whose status is 'active' or 'inactive' returns and stores
\* exactly that status.
C2_CreateStatus ==
    [][\A c \in DOMAIN pc :
        (Executes(c, "INSERT") /\
         (~Has(call[c].data, "status") \/ call[c].data.status \in StatusValues)) =>
            LET want == IF Has(call[c].data, "status")
                        THEN call[c].data.status ELSE "active"
            IN  /\ Returns(c)
                /\ res'[c].value.status = want
                /\ \E r \in resources' \ resources :
                      r.id = res'[c].value.id /\ r.status = want]_vars

\* a create without status has returned 'active' and its row is stored
\* beside a row created with status 'inactive'
C2_Witness ==
    \E c \in DOMAIN pc :
        /\ call[c].op = "create" /\ ~Has(call[c].data, "status")
        /\ res[c].kind = "returned" /\ res[c].value.status = "active"
        /\ \E r \in resources : r.id = res[c].value.id /\ r.status = "active"
        /\ \E r \in resources : r.id # res[c].value.id /\ r.status = "inactive"

\* C3: a findById of the id the latest create returned, with no UPDATE or
\* DELETE statement on that row in between, returns a resource equal to the
\* created one in all six fields.
C3_RoundTrip ==
    [][\A c \in DOMAIN pc :
        (Executes(c, "SELECT") /\ lastCreated # NoResource /\
         call[c].id = lastCreated.id) =>
            /\ Returns(c)
            /\ res'[c].value = lastCreated
            /\ DOMAIN res'[c].value =
                   {"id", "name", "description", "status", "createdAt", "updatedAt"}]_vars

\* findById has returned the resource of the second create, made with
\* status 'inactive', while another row is stored
C3_Witness ==
    \E c \in DOMAIN pc :
        /\ res[c].op = "findById" /\ res[c].kind = "returned"
        /\ res[c].value = lastCreated
        /\ res[c].value.id = 2 /\ res[c].value.status = "inactive"
        /\ Cardinality(resources) = 2

\* C4: when the id has no row, the statement of findById, update and delete
\* ends the call with a NotFoundError of status 404 whose message holds the
\* id, and leaves the store as it was.
C4_NotFound ==
    [][\A c \in DOMAIN pc :
        ((Executes(c, "SELECT") \/ Executes(c, "UPDATE_SELECT") \/
          Executes(c, "UPDATE") \/ Executes(c, "DELETE")) /\
         call[c].id \notin RowIds(resources)) =>
            /\ pc'[c] = "idle"
            /\ res'[c].kind = "threw"
            /\ res'[c].error.name = "NotFoundError"
            /\ res'[c].error.statusCode = 404
            /\ res'[c].error.message = <<"Resource with id ", call[c].id, " not found">>
            /\ resources' = resources
            /\ nextId' = nextId]_vars

\* an update with valid data has thrown NotFoundError for id 2 while the row
\* of id 1 is stored
C4_Witness ==
    \E c \in DOMAIN pc :
        /\ call[c].op = "update" /\ call[c].id = 2 /\ call[c].data = [name |-> nameCd]
        /\ res[c].kind = "threw" /\ res[c].error.name = "NotFoundError"
        /\ RowIds(resources) = {1}

\* C5: once a delete of an id has succeeded, no row of that id is stored, no
\* findById returns a resource of that id and no findAll page holds one.
C5_HardDelete ==
    [][/\ RowIds(resources') \cap deleted' = {}
       /\ \A c \in DOMAIN pc :
            /\ (Executes(c, "SELECT") /\ Returns(c)) =>
                   res'[c].value.id \notin deleted
            /\ (Executes(c, "PAGE") /\ Returns(c)) =>
                   \A i \in DOMAIN res'[c].value.data :
                       res'[c].value.data[i].id \notin deleted]_vars

\* after the delete of id 1, findAll has returned a page that holds the row
\* of id 2 only
C5_Witness ==
    \E c \in DOMAIN pc :
        /\ deleted = {1}
        /\ res[c].op = "findAll" /\ res[c].kind = "returned"
        /\ Len(res[c].value.data) = 1
        /\ res[c].value.data[1].id = 2
        /\ res[c].value.pagination.total = 1

\* C6: a delete of an id that has no row finds no row (rowCount 0), throws
\* NotFoundError and leaves the store as it was; a client that repeats the
\* delete gets the same outcome as the first time.
C6_DeleteAbsentIdempotent ==
    [][\A c \in DOMAIN pc :
        (Executes(c, "DELETE") /\
         (call[c].id \notin RowIds(resources) \/ call[c].retry)) =>
            /\ rowCount(resources, call[c].id) = 0
            /\ res'[c] = Threw("delete",
                   AppError("NotFoundError",
                            <<"Resource with id ", call[c].id, " not found">>, 404), 1)
            /\ resources' = resources
            /\ nextId' = nextId
            /\ deleted' = deleted]_vars

\* the second of two deletes of id 2, which never had a row, has thrown
\* NotFoundError, and the row of id 1 is still stored
C6_Witness ==
    \E c \in DOMAIN pc :
        /\ call[c].op = "delete" /\ call[c].id = 2 /\ call[c].retry
        /\ res[c].kind = "threw" /\ res[c].error.name = "NotFoundError"
        /\ RowIds(resources) = {1}
        /\ nextId = 2

UpdateFields == {"name", "description", "status"}

\* the row of id in rows (there is one)
RowOf(rows, id) == CHOOSE r \in rows : r.id = id

\* C7: a successful update changes the supplied fields among name,
\* description and status to the supplied values and nothing else but
\* updatedAt: id, createdAt and the fields not supplied keep their values,
\* no other row changes, and the returned resource is the new row.
C7_UpdateFrame ==
    [][\A c \in DOMAIN pc :
        ((Executes(c, "UPDATE_SELECT") \/ Executes(c, "UPDATE")) /\ Returns(c)) =>
            LET id == call[c].id
                d == call[c].data
                old == RowOf(resources, id)
                new == RowOf(resources', id)
            IN  /\ id \in RowIds(resources)
                /\ id \in RowIds(resources')
                /\ new.createdAt = old.createdAt
                /\ \A f \in UpdateFields :
                      new[f] = IF Has(d, f) THEN d[f] ELSE old[f]
                /\ resources' \ {new} = resources \ {old}
                /\ res'[c].value.id = id
                /\ res'[c].value.createdAt = toISOString(old.createdAt)
                /\ \A f \in UpdateFields : res'[c].value[f] = new[f]]_vars

\* an update of the name alone has returned: the row keeps the description
\* and the status 'inactive' it had, and the other row is stored unchanged
C7_Witness ==
    \E c \in DOMAIN pc :
        /\ call[c].op = "update" /\ call[c].data = [name |-> nameCd]
        /\ res[c].kind = "returned"
        /\ res[c].value.name = nameCd
        /\ res[c].value.description = descY
        /\ res[c].value.status = "inactive"
        /\ res[c].value.updatedAt # res[c].value.createdAt
        /\ \E r \in resources : r.id # call[c].id /\ r.name = nameAb

\* C8 as the claim states it: an update that supplies no field returns the
\* row with updatedAt advanced to the current time, and the stored row's
\* updatedAt is advanced too.
C8_TouchAdvancesUpdatedAt ==
    [][\A c \in DOMAIN pc :
        ((Executes(c, "UPDATE_SELECT") \/ Executes(c, "UPDATE")) /\ Returns(c) /\
         DOMAIN call[c].data = {}) =>
            /\ res'[c].value.updatedAt = toISOString(now)
            /\ RowOf(resources', call[c].id).updatedAt = now]_vars

\* C8 (amended): an update that supplies no field returns the existing row
\* with all six fields as they are, updatedAt included, and sends no UPDATE
\* statement: the store is as it was.
C8_EmptyUpdateIsNoOp ==
    [][\A c \in DOMAIN pc :
        ((Executes(c, "UPDATE_SELECT") \/ Executes(c, "UPDATE")) /\ Returns(c) /\
         DOMAIN call[c].data = {}) =>
            LET old == RowOf(resources, call[c].id)
            IN  /\ res'[c].value =
                       [id |-> old.id, name |-> old.name,
                        description |-> old.description, status |-> old.status,
                        createdAt |-> toISOString(old.createdAt),
                        updatedAt |-> toISOString(old.updatedAt)]
                /\ res'[c].queries = 1
                /\ resources' = resources]_vars

\* an update with no field has returned at time 1 a row whose updatedAt is
\* still 0, and the stored row's is too
C8_Witness ==
    \E c \in DOMAIN pc :
        /\ call[c].op = "update" /\ DOMAIN call[c].data = {}
        /\ res[c].kind = "returned"
        /\ now = 1
        /\ res[c].value.updatedAt = toISOString(0)
        /\ RowOf(resources, call[c].id).updatedAt = 0

\* C9: after a successful update that supplies a field, the row's updatedAt
\* is the store time of the UPDATE statement, not earlier than it was, and
\* the returned resource carries it.
C9_UpdatedAtRefreshed ==
    [][\A c \in DOMAIN pc :
        ((Executes(c, "UPDATE_SELECT") \/ Executes(c, "UPDATE")) /\ Returns(c) /\
         DOMAIN call[c].data \cap UpdateFields # {}) =>
            /\ RowOf(resources', call[c].id).updatedAt = now
            /\ RowOf(resources', call[c].id).updatedAt >=
                   RowOf(resources, call[c].id).updatedAt
            /\ res'[c].value.updatedAt = toISOString(now)]_vars

\* an update of the name has returned updatedAt 1 for a row created at 0
C9_Witness ==
    \E c \in DOMAIN pc :
        /\ call[c].op = "update" /\ Has(call[c].data, "name")
        /\ res[c].kind = "returned"
        /\ res[c].value.createdAt = toISOString(0)
        /\ res[c].value.updatedAt = toISOString(1)
        /\ RowOf(resources, call[c].id).updatedAt = 1

\* C10: a create or update that throws ValidationError does so in the call
\* itself, before any store statement (none was sent, none is awaited), and
\* the store is the same before and after.
C10_NoPartialWrites ==
    [][\A c \in DOMAIN pc :
        (res'[c] # res[c] /\ res'[c].op \in {"create", "update"} /\
         res'[c].kind = "threw" /\ res'[c].error.name = "ValidationError") =>
            /\ pc[c] = "idle"
            /\ pc'[c] = "idle"
            /\ res'[c].queries = 0
            /\ resources' = resources
            /\ nextId' = nextId]_vars

\* a create with a blank name has been rejected with ValidationError while a
\* row is stored and the sequence stands where that row left it
C10_Witness ==
    \E c \in DOMAIN pc :
        /\ call[c].op = "create" /\ call[c].data.name = nameBlank
        /\ res[c].kind = "threw" /\ res[c].error.name = "ValidationError"
        /\ res[c].queries = 0
        /\ RowIds(resources) = {1}
        /\ nextId = 2

\* C11: in every state every stored row has status 'active' or 'inactive',
\* whatever statuses the create, update and delete calls were given: none,
\* the empty string, a string that is not enumerated.
C11_StatusEnumerated == \A r \in resources : r.status \in StatusValues

\* a create given status '' has returned and its row is stored 'active',
\* beside a row an update has made 'inactive'
C11_Witness ==
    \E c \in DOMAIN pc :
        /\ call[c].op = "create" /\ Has(call[c].data, "status")
        /\ call[c].data.status = ""
        /\ res[c].kind = "returned"
        /\ \E r \in resources : r.id = res[c].value.id /\ r.status = "active"
        /\ \E r \in resources : r.id # res[c].value.id /\ r.status = "inactive"

\* C12: every stored row has updatedAt >= createdAt, in every state, and the
\* row an INSERT has just stored has createdAt = updatedAt, as has the
\* resource the create returns.
C12_UpdatedAtNotBeforeCreatedAt ==
    [][/\ \A r \in resources : r.updatedAt >= r.createdAt
       /\ \A r \in resources' : r.updatedAt >= r.createdAt
       /\ \A c \in DOMAIN pc :
            (Executes(c, "INSERT") /\ Returns(c)) =>
                /\ resources' # resources
                /\ \A r \in resources' \ resources : r.createdAt = r.updatedAt
                /\ res'[c].value.createdAt = res'[c].value.updatedAt]_vars

\* a create at time 1 has returned equal timestamps, and the row created at
\* time 0 has since been updated at time 1
C12_Witness ==
    \E c \in DOMAIN pc :
        /\ res[c].op = "create" /\ res[c].kind = "returned"
        /\ res[c].value.createdAt = toISOString(1)
        /\ \E r \in resources : r.id = res[c].value.id /\ r.createdAt = 1 /\ r.updatedAt = 1
        /\ \E r \in resources : r.createdAt = 0 /\ r.updatedAt = 1

\* the ids of the resources on the page a findAll returned
PageIds(page) == {page.data[i].id : i \in DOMAIN page.data}

\* client c holds page k of the store at rest, as findAll returned it
HoldsPage(c, k) ==
    /\ res[c].op = "findAll" /\ res[c].kind = "returned"
    /\ res[c].value.pagination.page = k
    /\ res[c].value.pagination.limit = PageLimit

\* C13 as the claim states it: of a store at rest whose N rows fill the
\* pages 1..ceil(N/L) of limit L, here two pages, the pages findAll returns
\* hold every row exactly once -- none missing, none on two pages -- and
\* each page reports total = N.
C13_PagesCoverExactlyOnce ==
    \A c1, c2 \in DOMAIN pc :
        (/\ HoldsPage(c1, 1) /\ HoldsPage(c2, 2)
         /\ totalPages(Cardinality(resources), PageLimit) = 2) =>
            /\ PageIds(res[c1].value) \cup PageIds(res[c2].value) = RowIds(resources)
            /\ PageIds(res[c1].value) \cap PageIds(res[c2].value) = {}
            /\ res[c1].value.pagination.total = Cardinality(resources)
            /\ res[c2].value.pagination.total = Cardinality(resources)

\* the same where the rows differ in createdAt: then the order is fixed and
\* the pages do cover the store
C13_CoverWhenCreatedAtDiffer ==
    \A c1, c2 \in DOMAIN pc :
        (/\ HoldsPage(c1, 1) /\ HoldsPage(c2, 2)
         /\ totalPages(Cardinality(resources), PageLimit) = 2
         /\ \A r1, r2 \in resources : r1 # r2 => r1.createdAt # r2.createdAt) =>
            /\ PageIds(res[c1].value) \cup PageIds(res[c2].value) = RowIds(resources)
            /\ PageIds(res[c1].value) \cap PageIds(res[c2].value) = {}
            /\ res[c1].value.pagination.total = Cardinality(resources)
            /\ res[c2].value.pagination.total = Cardinality(resources)

\* two rows of equal createdAt are stored, and pages 1 and 2 of limit 1 both
\* hold the row of id 1: the row of id 2 is on no page
C13_Witness ==
    \E c1, c2 \in DOMAIN pc :
        /\ HoldsPage(c1, 1) /\ HoldsPage(c2, 2)
        /\ RowIds(resources) = {1, 2}
        /\ \A r \in resources : r.createdAt = 0
        /\ PageIds(res[c1].value) = {1}
        /\ PageIds(res[c2].value) = {1}

\* x is a substring of s, letter case aside
Contains(s, x) ==
    LET S == Expand(s)
        X == Expand(x)
    IN  \E k \in 0..(Len(S) - Len(X)) :
            \A i \in 1..Len(X) : lower(S[k + i]) = lower(X[i])

\* the resource passes the filters as the claim reads them
PassesFilters(resource, filters) ==
    /\ Has(filters, "status") => resource.status = filters.status
    /\ Has(filters, "search") =>
          \/ Contains(resource.name, filters.search)
          \/ Contains(resource.description, filters.search)

\* the characters LIKE gives a meaning of their own
LikeSpecial == {"%", "_"}

\* C14 as the claim states it: every resource findAll returns has the
\* status asked for, if one was, and holds the search term asked for, if
\* one was, as a substring of its name or of its description, letter case
\* aside.
C14_FilterSound ==
    \A c \in DOMAIN pc :
        (res[c].op = "findAll" /\ res[c].kind = "returned") =>
            \A i \in DOMAIN res[c].value.data :
                PassesFilters(res[c].value.data[i], call[c].filters)

\* the same for search terms free of the characters LIKE gives a meaning
C14_SoundForPlainTerms ==
    \A c \in DOMAIN pc :
        (/\ res[c].op = "findAll" /\ res[c].kind = "returned"
         /\ Has(call[c].filters, "search") =>
                \A i \in DOMAIN call[c].filters.search :
                    call[c].filters.search[i].ch \notin LikeSpecial) =>
            \A i \in DOMAIN res[c].value.data :
                PassesFilters(res[c].value.data[i], call[c].filters)

\* findAll with search '_' has returned the resource named 'Ab' and
\* described 'x', which holds no '_'
C14_Witness ==
    \E c \in DOMAIN pc :
        /\ res[c].op = "findAll" /\ res[c].kind = "returned"
        /\ call[c].filters = [search |-> Str(<<"_">>)]
        /\ \E i \in DOMAIN res[c].value.data :
              /\ res[c].value.data[i].name = nameAb
              /\ res[c].value.data[i].description = descX

\* findAll with status 'active' and search 'D' has returned the resource
\* described by a thousand 'd' and not the other stored resource
C14_PlainTermWitness ==
    \E c \in DOMAIN pc :
        /\ res[c].op = "findAll" /\ res[c].kind = "returned"
        /\ Has(call[c].filters, "status") /\ Has(call[c].filters, "search")
        /\ Len(res[c].value.data) = 1
        /\ res[c].value.data[1].description = desc1000
        /\ Cardinality(resources) = 2

\* the least number of pages of size limit that hold total rows
Ceil(total, limit) ==
    CHOOSE n \in 0..total : n * limit >= total /\ (n > 0 => (n - 1) * limit < total)

Starts(c, op) ==
    /\ pc[c] = "idle"
    /\ call'[c].op = op
    /\ call'[c] # call[c] \/ res'[c] # res[c]

\* C16: a findAll whose page is below 1, or whose limit is below 1 or above
\* 100, ends in the call itself with a ValidationError, no statement sent
\* and none awaited; any other findAll, page 1, limit 1 and limit 100
\* among them, goes on to the store.
C16_FindAllValidation ==
    [][\A c \in DOMAIN pc :
        Starts(c, "findAll") =>
            LET filters == call'[c].filters
                bad == \/ Has(filters, "page") /\ filters.page < 1
                       \/ Has(filters, "limit") /\ filters.limit < 1
                       \/ Has(filters, "limit") /\ filters.limit > 100
            IN  /\ bad =>
                      /\ pc'[c] = "idle"
                      /\ res'[c].kind = "threw"
                      /\ res'[c].error.name = "ValidationError"
                      /\ res'[c].queries = 0
                      /\ resources' = resources
                /\ ~bad =>
                      /\ pc'[c] = "COUNT"
                      /\ res'[c].kind = "pending"]_vars

\* a findAll with limit 0 has been rejected with no statement sent while a
\* row is stored
C16_Witness ==
    \E c \in DOMAIN pc :
        /\ call[c].op = "findAll" /\ call[c].filters = [limit |-> 0]
        /\ res[c].kind = "threw" /\ res[c].error.name = "ValidationError"
        /\ res[c].queries = 0
        /\ pc[c] = "idle"
        /\ resources # {}

\* a findAll with limit 100 has gone to the store and returned its row
C16_AcceptedWitness ==
    \E c \in DOMAIN pc :
        /\ call[c].op = "findAll" /\ call[c].filters = [limit |-> 100]
        /\ res[c].kind = "returned"
        /\ res[c].queries = 2
        /\ Len(res[c].value.data) = 1

\* the number of characters of a field of the data, -1 if it has none
Chars(data, f) == IF Has(data, f) THEN Len(Expand(data[f])) ELSE -1

\* the field is there and holds nothing but blanks (no character at all
\* included)
Blank(data, f) == Has(data, f) /\ \A i \in DOMAIN data[f] : data[f][i].ch = " "

\* the name passes the rules of the call's operation: create needs one,
\* neither takes a blank one or one of more than 255 characters
NamePasses(op, data) ==
    /\ op = "create" => Has(data, "name")
    /\ ~Blank(data, "name")
    /\ Chars(data, "name") <= 255

\* C17: create and update reject a name of 256 characters with the
\* ValidationError 'Name must be less than 255 characters' and a
\* description of 1001 characters with 'Description must be less than 1000
\* characters', where no earlier rule fails (a blank name or description
\* fails the presence rule first, a bad name comes before the description);
\* they accept a name of 255 and a description of 1000 characters, and the
\* store then takes the row.
C17_LengthBoundaries ==
    [][\A c \in DOMAIN pc :
        /\ (Starts(c, "create") \/ Starts(c, "update")) =>
              LET d == call'[c].data
                  n == Chars(d, "name")
                  m == Chars(d, "description")
              IN  /\ (n = 256 /\ ~Blank(d, "name")) =>
                        res'[c] = Threw(call'[c].op, AppError("ValidationError",
                            <<"Name must be less than 255 characters">>, 400), 0)
                  /\ (m = 1001 /\ NamePasses(call'[c].op, d) /\ ~Blank(d, "description")) =>
                        res'[c] = Threw(call'[c].op, AppError("ValidationError",
                            <<"Description must be less than 1000 characters">>, 400), 0)
                  /\ ((n = 255 \/ m = 1000) /\ n # 256 /\ m # 1001 /\ ~Has(d, "status")) =>
                        /\ res'[c].kind = "pending"
                        /\ pc'[c] \in {"INSERT", "UPDATE_SELECT"}
        /\ ((Executes(c, "INSERT") \/
             (Executes(c, "UPDATE") /\ call[c].id \in RowIds(resources))) /\
            (Chars(call[c].data, "name") = 255 \/ Chars(call[c].data, "description") = 1000)) =>
              /\ Returns(c)
              /\ \A f \in DOMAIN call[c].data : res'[c].value[f] = call[c].data[f]
              /\ \E r \in resources' : r.id = res'[c].value.id /\
                    \A f \in DOMAIN call[c].data : r[f] = call[c].data[f]]_vars

\* an update to a name of 256 characters has been rejected, and the row it
\* was aimed at, created with a name of 255 and a description of 1000
\* characters, is stored as created
C17_Witness ==
    \E c \in DOMAIN pc :
        /\ call[c].op = "update" /\ Chars(call[c].data, "name") = 256
        /\ res[c].kind = "threw" /\ res[c].error.name = "ValidationError"
        /\ \E r \in resources :
              /\ r.id = call[c].id
              /\ Len(Expand(r.name)) = 255
              /\ Len(Expand(r.description)) = 1000

\* the call of client c, made in this step, is rejected with a
\* ValidationError and writes nothing
RejectedUnwritten(c) ==
    /\ pc'[c] = "idle"
    /\ res'[c].kind = "threw"
    /\ res'[c].error.name = "ValidationError"
    /\ res'[c].queries = 0
    /\ resources' = resources
    /\ nextId' = nextId

\* C18 as the claim states it: a create or update whose data has a status
\* that is neither 'active' nor 'inactive' -- the empty string among them --
\* fails with a ValidationError and writes nothing.
C18_StatusRejected ==
    [][\A c \in DOMAIN pc :
        ((Starts(c, "create") \/ Starts(c, "update")) /\
         Has(call'[c].data, "status") /\
         call'[c].data.status \notin {"active", "inactive"}) =>
            RejectedUnwritten(c)]_vars

\* the same for update with any such status and for create with one that
\* is not the empty string
C18_RejectedWhenTruthyOrUpdate ==
    [][\A c \in DOMAIN pc :
        ((Starts(c, "create") \/ Starts(c, "update")) /\
         Has(call'[c].data, "status") /\
         call'[c].data.status \notin {"active", "inactive"} /\
         (call'[c].op = "update" \/ call'[c].data.status # "")) =>
            RejectedUnwritten(c)]_vars

\* a create given status '' has returned a resource of status 'active' and
\* the store holds its row
C18_Witness ==
    \E c \in DOMAIN pc :
        /\ call[c].op = "create" /\ Has(call[c].data, "status")
        /\ call[c].data.status \notin {"active", "inactive"}
        /\ res[c].kind = "returned"
        /\ res[c].queries = 1
        /\ res[c].value.id \in RowIds(resources)

\* an update given status '' has been rejected and the row is as created
C18_UpdateWitness ==
    \E c \in DOMAIN pc :
        /\ call[c].op = "update" /\ Has(call[c].data, "status")
        /\ call[c].data.status = ""
        /\ res[c].kind = "threw" /\ res[c].error.name = "ValidationError"
        /\ call[c].id \in RowIds(resources)

\* client c sends a request in this step
Sends(c) ==
    /\ pc[c] = "idle"
    /\ <<pc[c], call[c], res[c], req[c]>>' # <<pc[c], call[c], res[c], req[c]>>
    /\ req'[c] # NoRequest

\* the keys a request supplies, an empty value being none
SuppliedKeys(r) ==
    {r.headers[h] : h \in {h \in DOMAIN r.headers : h = "x-api-key" /\ r.headers[h] # ""}}
    \cup {r.query[q] : q \in {q \in DOMAIN r.query : q = "apiKey" /\ r.query[q] # ""}}

\* the request client c sends in this step is answered 401 with message
Answers401(c, message) ==
    res'[c] = [op |-> "request", kind |-> "threw", queries |-> 0,
               error |-> [name |-> "UnauthorizedError", statusCode |-> 401,
                          message |-> message]]

\* the request client c sends in this step is not turned away for its key
PassesGate(c) == ~(res'[c].kind = "threw" /\ res'[c].error.statusCode = 401)

\* C19: with an API key configured, a request that supplies no key in the
\* header or the query string is answered 401 'API key is required. ...',
\* one that supplies only keys other than the configured one 401 'Invalid
\* API key.', and one that supplies the configured key, in the header or in
\* the query string alone, passes the gate; with no key configured every
\* request passes.
C19_AuthGate ==
    [][\A c \in DOMAIN pc :
        Sends(c) =>
            LET keys == SuppliedKeys(req'[c])
            IN  IF apiKey.set
                THEN /\ keys = {} =>
                          Answers401(c, <<"API key is required. Please provide it in the X-API-Key header or apiKey query parameter.">>)
                     /\ (keys # {} /\ apiKey.value \notin keys) =>
                          Answers401(c, <<"Invalid API key.">>)
                     /\ keys = {apiKey.value} => PassesGate(c)
                ELSE PassesGate(c)]_vars

\* with a key configured, a request that carries it in the query string
\* alone, and nothing in the header, has been served the stored resource
C19_Witness ==
    \E c \in DOMAIN pc :
        /\ apiKey = [set |-> TRUE, value |-> "secret"]
        /\ req[c] # NoRequest
        /\ DOMAIN req[c].headers = {}
        /\ SuppliedKeys(req[c]) = {"secret"}
        /\ req[c].route = "GET /:id"
        /\ res[c].kind = "returned" /\ res[c].op = "findById"

\* C20: on each of the five routes a request the gate turns away ends with
\* the gate's error, whatever else is wrong with it: no validation
\* message, no service call, no statement sent or awaited, the store as it
\* was, no resource returned.
C20_GateFirst ==
    [][\A c \in DOMAIN pc :
        (Sends(c) /\ authenticateApiKey(apiKey, req'[c]) # NoError) =>
            /\ req'[c].route \in {"POST /", "GET /", "GET /:id", "PUT /:id", "DELETE /:id"}
            /\ res'[c] = Threw("request", authenticateApiKey(apiKey, req'[c]), 0)
            /\ res'[c].error.statusCode = 401
            /\ call'[c] = NoCall
            /\ pc'[c] = "idle"
            /\ resources' = resources
            /\ nextId' = nextId]_vars

\* a POST with a wrong key and a body the validation chain would refuse
\* has been answered 401, beside a stored row
C20_Witness ==
    \E c \in DOMAIN pc :
        /\ req[c] # NoRequest
        /\ req[c].route = "POST /"
        /\ SuppliedKeys(req[c]) = {"wrong"}
        /\ validateCreateResource(req[c].body) # <<>>
        /\ res[c].kind = "threw" /\ res[c].error.statusCode = 401
        /\ call[c] = NoCall
        /\ resources # {}

\* the status each kind of the taxonomy is answered with
TaxonomyStatus ==
    [ValidationError |-> 400, NotFoundError |-> 404,
     UnauthorizedError |-> 401, ConflictError |-> 409]

\* C21: the error handler sends exactly one response per error; its body is
\* {success: false, error: {message, statusCode}} with statusCode equal to
\* the HTTP status; an error of a taxonomy kind gets the status of its kind
\* and its own message, every other error gets 500 with 'Internal server
\* error' in production and its raw message otherwise.
C21_ErrorTranslated ==
    \A c \in DOMAIN res :
        res[c].op = "errorHandler" =>
            LET err == call[c].err
                sent == res[c].value
            IN  /\ Len(sent) = 1
                /\ DOMAIN sent[1] = {"status", "body"}
                /\ DOMAIN sent[1].body = {"success", "error"}
                /\ DOMAIN sent[1].body.error = {"message", "statusCode"}
                /\ sent[1].body.success = FALSE
                /\ sent[1].body.error.statusCode = sent[1].status
                /\ IF err.name \in DOMAIN TaxonomyStatus
                   THEN /\ sent[1].status = TaxonomyStatus[err.name]
                        /\ sent[1].body.error.message = err.message
                   ELSE /\ sent[1].status = 500
                        /\ sent[1].body.error.message =
                             IF call[c].NODE_ENV = "production"
                             THEN <<"Internal server error">> ELSE err.message

\* one client got 409 for a ConflictError while the other, in production,
\* got the generic 500 for an error that carries statusCode 400
C21_Witness ==
    \E c1, c2 \in DOMAIN res :
        /\ res[c1].op = "errorHandler" /\ call[c1].err.name = "ConflictError"
        /\ res[c1].value[1].status = 409
        /\ res[c2].op = "errorHandler" /\ call[c2].err.name = "SyntaxError"
        /\ call[c2].NODE_ENV = "production"
        /\ res[c2].value[1].status = 500
        /\ res[c2].value[1].body.error.message = <<"Internal server error">>

\* the segment is a number: digits only, at least one
IsNumber(s) == Len(s) > 0 /\ \A i \in 1..Len(s) : IsDigit(s[i])

\* the request client c sends in this step is answered 400 in this step
Answers400(c) ==
    /\ pc'[c] = "idle"
    /\ res'[c].op = "request"
    /\ \/ res'[c].kind = "returned" /\ res'[c].value.status = 400
       \/ res'[c].kind = "threw" /\ res'[c].error.statusCode = 400

\* C22 as the claim states it: a GET, PUT or DELETE of /:id that passes the
\* gate and whose id segment is not a number -- digits followed by
\* something else included -- is answered 400 without a service call and
\* with the store untouched.
C22_NonNumericIdRejected ==
    [][\A c \in DOMAIN pc :
        (Sends(c) /\ PassesGate(c) /\
         req'[c].route \in {"GET /:id", "PUT /:id", "DELETE /:id"} /\
         ~IsNumber(req'[c].params.id)) =>
            /\ Answers400(c)
            /\ call'[c] = NoCall
            /\ resources' = resources]_vars

\* DELETE /api/resources/1a has deleted the row of id 1 and returned
C22_Witness ==
    \E c \in DOMAIN pc :
        /\ req[c] # NoRequest
        /\ req[c].route = "DELETE /:id"
        /\ req[c].params.id = <<"1", "a">>
        /\ res[c].op = "delete" /\ res[c].kind = "returned"
        /\ 1 \in deleted
        /\ resources = {}

\* what does hold: an id segment that does not start with a digit is
\* answered 400 without a service call
C22_NoLeadingDigitRejected ==
    [][\A c \in DOMAIN pc :
        (Sends(c) /\ PassesGate(c) /\
         req'[c].route \in {"GET /:id", "PUT /:id", "DELETE /:id"} /\
         (req'[c].params.id = <<>> \/ ~IsDigit(req'[c].params.id[1]))) =>
            /\ Answers400(c)
            /\ call'[c] = NoCall
            /\ resources' = resources]_vars

\* client c executes a store statement in this step
ExecutesStatement(c) == pc[c] # "idle" /\ pc'[c] # pc[c]

\* the mutation of client c has made its first store access and not yet its
\* last: only update makes two, the lookup and the UPDATE statement
MidMutation(c) == call[c].op = "update" /\ pc[c] = "UPDATE"

\* C23 as the claim states it: between the first and the last store access
\* of a create, update or delete no statement of another request executes.
C23_MutationAtomic ==
    [][\A c, o \in DOMAIN pc :
        (c # o /\ MidMutation(o)) => ~ExecutesStatement(c)]_vars

\* a delete of id 1 has executed and returned while the update of id 1 of
\* the other client, its lookup done, still awaits its UPDATE statement
C23_Witness ==
    \E c, o \in DOMAIN pc :
        /\ c # o
        /\ call[o].op = "update" /\ pc[o] = "UPDATE" /\ call[o].id = 1
        /\ call[c].op = "delete" /\ call[c].id = 1
        /\ res[c].kind = "returned"
        /\ 1 \in deleted

\* what does hold: create and delete make one store access, the statement
\* that ends the call, and only the statement of a mutation writes
C23_CreateDeleteOneStatement ==
    [][\A c \in DOMAIN pc :
        /\ (ExecutesStatement(c) /\ call[c].op \in {"create", "delete"}) =>
              /\ res[c].queries = 0
              /\ pc'[c] = "idle"
              /\ res'[c].queries = 1
        /\ (ExecutesStatement(c) /\ resources' # resources) =>
              pc[c] \in {"INSERT", "UPDATE", "DELETE"}]_vars

\* the three fields of the row of id 1 before any update: what its create
\* was given, and the default status
PriorFields == [name |-> nameAb, description |-> descX, status |-> "active"]

\* C24: when the second of two concurrent updates of the existing id 1
\* completes, both have returned, and each of name, description and status
\* holds the value of the update whose UPDATE statement executed last among
\* those that supplied it, or its prior value if neither supplied it; at no
\* time does a field hold a value that no call wrote.
C24_LastWriteWins ==
    [][/\ \A c, o \in DOMAIN pc :
            (/\ c # o
             /\ call[c].op = "update" /\ pc[c] # "idle" /\ pc'[c] = "idle"
             /\ call[o].op = "update" /\ pc[o] = "idle") =>
                /\ res'[c].kind = "returned"
                /\ res'[o].kind = "returned"
                /\ SelectById(resources', 1) # {}
                /\ \A row \in SelectById(resources', 1) :
                     \A f \in {"name", "description", "status"} :
                        row[f] = IF Has(call[c].data, f) THEN call[c].data[f]
                                 ELSE IF Has(call[o].data, f) THEN call[o].data[f]
                                 ELSE PriorFields[f]
       /\ \A row \in SelectById(resources', 1) :
            \A f \in {"name", "description", "status"} :
                \/ row[f] = PriorFields[f]
                \/ \E c \in DOMAIN pc :
                      /\ call'[c].op = "update"
                      /\ Has(call'[c].data, f)
                      /\ row[f] = call'[c].data[f]]_vars

\* both updates have returned; one supplied name 'ef' and status
\* 'inactive', the other name 'cd', whose UPDATE executed last: the row
\* holds 'cd', 'inactive' and the description it was created with
C24_Witness ==
    \E c, o \in DOMAIN pc :
        /\ call[c].op = "update" /\ call[c].data = [name |-> nameCd]
        /\ call[o].op = "update"
        /\ call[o].data = [name |-> nameEf, status |-> "inactive"]
        /\ res[c].kind = "returned" /\ res[c].queries = 2
        /\ res[o].kind = "returned" /\ res[o].queries = 2
        /\ res[o].value.name = nameEf
        /\ \E row \in resources :
              /\ row.id = 1
              /\ row.name = nameCd
              /\ row.status = "inactive"
              /\ row.description = descX

\* the functions of problem_4
SumFunctions ==
    {"sum_to_n_a", "sum_to_n_b", "sum_to_n_c", "sum_to_n_d",
     "sum_to_n_e", "sum_to_n_f", "sum_to_n_g", "sum_to_n_h"}

\* C25: whatever calls came before, each of the eight functions returns
\* n(n+1)/2 for n >= 1 and 0 for n <= 0 -- 15 for 5 -- so all eight agree
\* on every n, and so does every function with every other in the state
\* the call was made in.
C25_SumsAgree ==
    [][\A c \in DOMAIN pc :
        (call'[c].op \in SumFunctions /\ <<call[c], res[c]>>' # <<call[c], res[c]>>) =>
            LET n == call'[c].n
                v == res'[c].value
            IN  /\ res'[c].kind = "returned"
                /\ n >= 1 => 2 * v = n * (n + 1)
                /\ n <= 0 => v = 0
                /\ n = 5 => v = 15
                /\ v = sum_to_n_a(n) /\ v = sum_to_n_b(n) /\ v = sum_to_n_c(n)
                /\ v = sum_to_n_d(n) /\ v = sum_to_n_e(n, 0) /\ v = sum_to_n_g(n)
                /\ v = sum_to_n_h(n)
                /\ v = sum_to_n_f(n, cache).result
                /\ v = sum_to_n_f(n, cache').result]_vars

\* sum_to_n_f has answered 5 from its cache, which holds two other
\* arguments as well, with 15
C25_Witness ==
    \E c \in DOMAIN pc :
        /\ call[c].op = "sum_to_n_f" /\ call[c].n = 5 /\ call[c].cached
        /\ res[c].kind = "returned" /\ res[c].value = 15
        /\ Cardinality(DOMAIN cache) >= 3

Min(a, b) == IF a < b THEN a ELSE b

Max(a, b) == IF a > b THEN a ELSE b

\* the ways to list rows by createdAt, newest first: every row once, rows of
\* equal createdAt in either order
NewestFirst(rows) ==
    {s \in [1..Cardinality(rows) -> rows] :
        \A i, j \in 1..Cardinality(rows) :
            i < j => (s[i] # s[j] /\ s[i].createdAt >= s[j].createdAt)}

C26_BeyondLastPage ==
    \E c \in DOMAIN pc :
        /\ HoldsPage(c, 2)
        /\ res[c].value.data = <<>>
        /\ res[c].value.pagination.total = 1
        /\ Cardinality(resources) = 1

\* the rules of create in the order of the claim, each with its message;
\* a status is out of the enumeration if it is a non-empty string not in it
CreateRules(data) ==
    << [broken |-> ~Has(data, "name") \/ Blank(data, "name"),
        message |-> <<"Name is required">>],
       [broken |-> Chars(data, "name") > 255,
        message |-> <<"Name must be less than 255 characters">>],
       [broken |-> ~Has(data, "description") \/ Blank(data, "description"),
        message |-> <<"Description is required">>],
       [broken |-> Chars(data, "description") > 1000,
        message |-> <<"Description must be less than 1000 characters">>],
       [broken |-> Has(data, "status") /\ data.status \notin {"active", "inactive", ""},
        message |-> <<"Status must be either \"active\" or \"inactive\"">>] >>

\* the rules of update, which bind the supplied fields only
UpdateRules(data) ==
    << [broken |-> Blank(data, "name"),
        message |-> <<"Name cannot be empty">>],
       [broken |-> Chars(data, "name") > 255,
        message |-> <<"Name must be less than 255 characters">>],
       [broken |-> Blank(data, "description"),
        message |-> <<"Description cannot be empty">>],
       [broken |-> Chars(data, "description") > 1000,
        message |-> <<"Description must be less than 1000 characters">>],
       [broken |-> Has(data, "status") /\ data.status \notin {"active", "inactive"},
        message |-> <<"Status must be either \"active\" or \"inactive\"">>] >>

\* the rules broken, by their place in the order
Broken(rules) == {k \in DOMAIN rules : rules[k].broken}

\* the earliest of them
Earliest(ks) == CHOOSE k \in ks : \A j \in ks : k <= j

\* the call client c makes in this step fails with the message of the
\* earliest broken rule if there is one, and goes on to the store if not
ReportsEarliest(c, rules) ==
    LET broken == Broken(rules)
    IN  IF broken = {}
        THEN res'[c].kind = "pending"
        ELSE /\ res'[c].kind = "threw"
             /\ res'[c].error.name = "ValidationError"
             /\ res'[c].error.message = rules[Earliest(broken)].message
             /\ res'[c].queries = 0

\* C27: a create, or an update in its supplied fields, whose data break
\* several rules fails with the message of the earliest broken rule in the
\* order name presence, name length, description presence, description
\* length, status enumeration.
C27_FirstViolation ==
    [][\A c \in DOMAIN pc :
        /\ Starts(c, "create") => ReportsEarliest(c, CreateRules(call'[c].data))
        /\ Starts(c, "update") => ReportsEarliest(c, UpdateRules(call'[c].data))]_vars

\* a create whose name is too long, whose description is blank and whose
\* status is not enumerated has failed on the name's length
C27_Witness ==
    \E c \in DOMAIN pc :
        /\ call[c].op = "create"
        /\ Broken(CreateRules(call[c].data)) = {2, 3, 5}
        /\ res[c].kind = "threw"
        /\ res[c].error.message = <<"Name must be less than 255 characters">>

\* an update whose description is blank and whose status is not enumerated
\* has failed on the description
C27_UpdateWitness ==
    \E c \in DOMAIN pc :
        /\ call[c].op = "update"
        /\ Broken(UpdateRules(call[c].data)) = {3, 5}
        /\ res[c].kind = "threw"
        /\ res[c].error.message = <<"Description cannot be empty">>

\* C28: when the UPDATE statement of an update executes after a delete has
\* removed the row its lookup had found, the update throws NotFoundError
\* (404), the delete has returned, and no row of that id is stored, then
\* and ever after; the delete that executes in the gap returns and removes
\* the row.
C28_UpdateDeleteRace ==
    [][/\ \A c \in DOMAIN pc :
            (Executes(c, "UPDATE") /\ call[c].id \notin RowIds(resources)) =>
                /\ ~NoUpdates(call[c].data)
                /\ call[c].id \in deleted
                /\ pc'[c] = "idle"
                /\ res'[c] = Threw("update",
                       AppError("NotFoundError", notFoundMessage(call[c].id), 404), 2)
                /\ resources' = resources
       /\ \A c, o \in DOMAIN pc :
            (/\ c # o
             /\ Executes(c, "DELETE")
             /\ pc[o] = "UPDATE" /\ call[o].id = call[c].id
             /\ call[c].id \in RowIds(resources)) =>
                /\ Returns(c)
                /\ call[c].id \notin RowIds(resources')
                /\ pc'[o] = "UPDATE"
       /\ \A id \in deleted' : id \notin RowIds(resources')]_vars

\* the update of id 1 has thrown NotFoundError from its UPDATE statement,
\* its second store access, and the delete of the other client has
\* returned; no row is stored
C28_Witness ==
    \E c, o \in DOMAIN pc :
        /\ c # o
        /\ call[c].op = "update" /\ call[c].id = 1
        /\ res[c].kind = "threw" /\ res[c].error.name = "NotFoundError"
        /\ res[c].queries = 2
        /\ call[o].op = "delete" /\ call[o].id = 1 /\ res[o].kind = "returned"
        /\ resources = {}

\* C29 as the claim states it: whatever creates, updates and deletes run
\* beside it, the page a findAll returns has min(limit, max(0, total -
\* (page-1)*limit)) resources, total being the total it reports.
C29_SnapshotConsistent ==
    \A c \in DOMAIN pc :
        (res[c].op = "findAll" /\ res[c].kind = "returned") =>
            LET p == res[c].value.pagination
            IN  Len(res[c].value.data) =
                    Min(p.limit, Max(0, p.total - (p.page - 1) * p.limit))

\* a findAll has returned one resource and total 0: the INSERT of the other
\* client's create executed between its count and its page statement
C29_Witness ==
    \E c, o \in DOMAIN pc :
        /\ c # o
        /\ res[c].op = "findAll" /\ res[c].kind = "returned"
        /\ res[c].value.pagination.total = 0
        /\ Len(res[c].value.data) = 1
        /\ res[o].op = "create" /\ res[o].kind = "returned"
        /\ res[c].value.data[1].id = res[o].value.id

\* C30: an update whose data break a rule throws ValidationError (400) in
\* the call itself, before any store access and with the store as it was,
\* whether the id has a row or not; an update throws NotFoundError only
\* from a store access, for data that break no rule and an id without row.
C30_ValidationBeforeLookup ==
    [][\A c \in DOMAIN pc :
        /\ (Starts(c, "update") /\ Broken(UpdateRules(call'[c].data)) # {}) =>
              /\ pc'[c] = "idle"
              /\ res'[c].kind = "threw"
              /\ res'[c].error.name = "ValidationError"
              /\ res'[c].error.statusCode = 400
              /\ res'[c].queries = 0
              /\ resources' = resources
        /\ (/\ call'[c].op = "update"
            /\ res'[c] # res[c]
            /\ res'[c].kind = "threw"
            /\ res'[c].error.name = "NotFoundError") =>
              /\ Broken(UpdateRules(call'[c].data)) = {}
              /\ call'[c].id \notin RowIds(resources)
              /\ res'[c].queries >= 1]_vars

\* an update with a name of 256 characters has thrown ValidationError with
\* no store access while the table is empty, a row deleted before
C30_Witness ==
    \E c \in DOMAIN pc :
        /\ call[c].op = "update"
        /\ Chars(call[c].data, "name") = 256
        /\ res[c].kind = "threw" /\ res[c].error.name = "ValidationError"
        /\ res[c].queries = 0
        /\ resources = {}
        /\ call[c].id \in deleted

\* the same update has thrown ValidationError while its id has a row
C30_PresentIdWitness ==
    \E c \in DOMAIN pc :
        /\ call[c].op = "update"
        /\ Chars(call[c].data, "name") = 256
        /\ res[c].kind = "threw" /\ res[c].error.name = "ValidationError"
        /\ res[c].queries = 0
        /\ call[c].id \in RowIds(resources)

====
